---- MODULE Spec2Model ----
(***************************************************************************)
(* Model of the timeframe aggregator of Readout                            *)
(* (src/src/DataBlockAggregator.cxx): DataBlockSlicer (appendBlock,        *)
(* getSlice, completeSliceOnTimeout) and the worker of DataBlockAggregator *)
(* (threadCallback / executeCallback), run against producers that push     *)
(* pages to the per-equipment input fifos and a consumer that pops the     *)
(* output fifo.                                                            *)
(***************************************************************************)
EXTENDS Integers, Sequences, FiniteSets, TLC

(***************************************************************************)
(* Bounds of the model.                                                    *)
(***************************************************************************)
\* total number of pages the producers push in one behaviour of Spec
MaxPages == 2
\* total number of pages fed to the slicer in one behaviour of SpecSlicer
MaxFeed == 5
\* total number of pages fed to the slicer in one behaviour of SpecSlicerTimeout
MaxTimedFeed == 2
\* capacity of each per-equipment input fifo
InputCapacity == 1
\* capacity of the output fifo of a configuration without slice timeout; with
\* a timeout the output has one more slot, so that a callback can push a
\* DataSet closed by timeout and leave room for another one
OutputCapacity == 1
\* last value of the monotonic clock timeNow
MaxTime == 1
\* maxLoop is 1024 in executeCallback (DataBlockAggregator.cxx:126); scaled
maxLoop == 1
\* number of pages of the memory pool of the readout equipment
NumPages == 3
\* number of superpages the driver takes in its transfer queue
RocQueueDepth == 2
\* number of calls of prepareBlocks in one behaviour of SpecRefill
MaxRefills == 3
\* number of calls of getNextBlock in one behaviour
MaxReadout == 2
\* hbOrbit and the orbit arithmetic are 32 bits wide
\* (ReadoutEquipmentRORC.cxx:101-104, 505-517); scaled
OrbitBits == 3
\* packetCounter is 8 bits wide (ReadoutEquipmentRORC.cxx:106, 629-634);
\* scaled
PacketCounterBits == 2

(***************************************************************************)
(* Program constants and value sets.                                       *)
(***************************************************************************)
\* link ids 0..maxLinks-1 are valid (appendBlock, line 194); scaled
maxLinks == 1
\* the sentinel link id (0xFF)
undefinedLinkId == 255
\* the sentinel timeframe id
undefinedTimeframeId == 0

\* the sentinel equipment id
undefinedEquipmentId == 0
\* TFperiod is 256 orbits unless configured (ReadoutEquipmentRORC.cxx:97-98,
\* 205-207); scaled
defaultTFperiod == 2

\* the aggregator inputs, indexed as inputs[] / slicers[] are
Inputs == {0, 1}
nInputs == Cardinality(Inputs)

\* the first link id that appendBlock refuses
wrongLinkId == maxLinks

\* the tags <<equipmentId, linkId, timeframeId>> the producers put on a page:
\* one source over two timeframes and the sentinel timeframe, a second link
\* of the same equipment (the sentinel link), a second equipment, and a link
\* id out of range
PageTags == {<<1, 0, 1>>, <<1, 0, 2>>, <<1, 0, undefinedTimeframeId>>,
             <<1, undefinedLinkId, 1>>, <<2, 0, 1>>,
             <<1, wrongLinkId, 1>>}

\* the tags the equipment of input i uses: the first one all of them, the
\* others a single source over two timeframes
TagsOf(i) == IF i = 0 THEN PageTags ELSE {<<2, 0, 1>>, <<2, 0, 2>>}

\* keys of DataBlockSlicer::partialSlices that appendBlock can create
SourceIds == {<<tag[1], tag[2]>> : tag \in PageTags \ {<<1, wrongLinkId, 1>>}}

(***************************************************************************)
(* Pointers.  A shared_ptr<DataSet> is a sequence of length 0 (nullptr) or *)
(* 1 (the DataSet, itself a sequence of pages), so that an empty DataSet   *)
(* and a null pointer are different values.                                *)
(***************************************************************************)
nullptr == <<>>
Ref(ds) == <<ds>>
IsNull(p) == Len(p) = 0
Deref(p) == p[1]

\* header of a DataBlock, with the identity of the page that carries it
Page(id, e, l, t) ==
    [id |-> id, equipmentId |-> e, linkId |-> l, timeframeId |-> t]

\* mutant: the slicing stream is keyed by the equipment id alone
SourceOf_EquipmentOnly(b) == <<b.equipmentId, 0>>

\* DataSourceId of a page (appendBlock, lines 189-191)
SourceOf(b) == <<b.equipmentId, b.linkId>>

\* a PartialSlice whose map entry was just created by partialSlices[sourceId]
NewPartialSlice == [tfId |-> 0, currentDataSet |-> nullptr, lastUpdateTime |-> 0]

\* a DataBlockSlicer after construction
NewSlicer == [partialSlices |-> [k \in SourceIds |-> NewPartialSlice],
              slices |-> <<>>]

(***************************************************************************)
(* DataBlockSlicer                                                         *)
(***************************************************************************)
\* a test of the link id that refuses the sentinel link id as well
LinkIdIsWrong_SentinelRefused(linkId) == linkId >= maxLinks

\* appendBlock, lines 193-194: the link id is neither the sentinel nor valid
LinkIdIsWrong(linkId) == linkId # undefinedLinkId /\ linkId >= maxLinks

\* mutant: the test of the timeframe id is inverted (== for !=)
SliceIsComplete_Inverted(s, tfId) ==
    s.tfId = tfId \/ tfId = undefinedTimeframeId

\* mutant: a page of the sentinel timeframe joins an open set of that id
SliceIsComplete_SentinelJoins(s, tfId) == s.tfId # tfId

\* appendBlock, line 210: the page closes the open set of PartialSlice s
SliceIsComplete(s, tfId) == s.tfId # tfId \/ tfId = undefinedTimeframeId

\* mutant: the page is put in front of the pages of the DataSet
push_back_AtFront(ds, block) == <<block>> \o ds

\* appendBlock, line 226: currentDataSet->push_back(block)
push_back(ds, block) == Append(ds, block)

\* appendBlock: [ret |-> the value returned, slicer |-> the slicer afterwards]
appendBlock(sl, block, timestamp) ==
    IF LinkIdIsWrong(block.linkId)
    THEN [ret |-> -1, slicer |-> sl]
    ELSE LET sourceId == SourceOf(block)
             s == sl.partialSlices[sourceId]
             tfId == block.timeframeId
             complete == ~IsNull(s.currentDataSet) /\ SliceIsComplete(s, tfId)
             slices1 == IF complete THEN Append(sl.slices, s.currentDataSet)
                                    ELSE sl.slices
             cur1 == IF complete THEN nullptr ELSE s.currentDataSet
             cur2 == IF IsNull(cur1) THEN Ref(<<>>) ELSE cur1
             cur3 == Ref(push_back(Deref(cur2), block))
             s1 == [tfId |-> tfId, currentDataSet |-> cur3,
                    lastUpdateTime |-> timestamp]
         IN [ret |-> Len(Deref(cur3)),
             slicer |-> [partialSlices |->
                             [sl.partialSlices EXCEPT ![sourceId] = s1],
                         slices |-> slices1]]

\* the orders in which `for (auto &s : partialSlices)` may visit the keys K
\* (the comparator of DataSourceId is not part of the sources: every order
\* of the keys is taken to be possible)
RECURSIVE IterationOrders(_)
IterationOrders(K) ==
    IF K = {} THEN {<<>>}
    ELSE UNION {{<<x>> \o p : p \in IterationOrders(K \ {x})} : x \in K}

\* the keys whose PartialSlice holds an open set
OpenKeys(sl) == {k \in SourceIds : ~IsNull(sl.partialSlices[k].currentDataSet)}

\* getSlice, lines 240-246: the keys at which the loop may find the first
\* non-null currentDataSet
FirstOpenKeys(sl) == OpenKeys(sl)

\* mutant: the open set handed out stays in its PartialSlice
getSlice_KeepsOpenSet(sl, includeIncomplete, k) ==
    IF sl.slices = <<>>
    THEN IF includeIncomplete /\ k \in OpenKeys(sl)
         THEN [ret |-> sl.partialSlices[k].currentDataSet, slicer |-> sl]
         ELSE [ret |-> nullptr, slicer |-> sl]
    ELSE [ret |-> Head(sl.slices),
          slicer |-> [sl EXCEPT !.slices = Tail(sl.slices)]]

\* mutant: a new, empty DataSet is returned when there is nothing to return
getSlice_EmptyForNone(sl, includeIncomplete, k) ==
    IF sl.slices = <<>>
    THEN IF includeIncomplete /\ k \in OpenKeys(sl)
         THEN [ret |-> sl.partialSlices[k].currentDataSet,
               slicer |-> [sl EXCEPT
                             !.partialSlices[k].currentDataSet = nullptr]]
         ELSE [ret |-> Ref(<<>>), slicer |-> sl]
    ELSE [ret |-> Head(sl.slices),
          slicer |-> [sl EXCEPT !.slices = Tail(sl.slices)]]

\* mutant: an open set is handed out whatever includeIncomplete is
getSlice_IgnoresIncludeIncomplete(sl, includeIncomplete, k) ==
    IF sl.slices = <<>>
    THEN IF k \in OpenKeys(sl)
         THEN [ret |-> sl.partialSlices[k].currentDataSet,
               slicer |-> [sl EXCEPT
                             !.partialSlices[k].currentDataSet = nullptr]]
         ELSE [ret |-> nullptr, slicer |-> sl]
    ELSE [ret |-> Head(sl.slices),
          slicer |-> [sl EXCEPT !.slices = Tail(sl.slices)]]

\* getSlice: [ret |-> the pointer returned, slicer |-> the slicer afterwards],
\* when the loop over the map, if run, stops at key k
getSlice(sl, includeIncomplete, k) ==
    IF sl.slices = <<>>
    THEN IF includeIncomplete
         THEN IF k \in OpenKeys(sl)
              THEN [ret |-> sl.partialSlices[k].currentDataSet,
                    slicer |-> [sl EXCEPT
                                  !.partialSlices[k].currentDataSet = nullptr]]
              ELSE [ret |-> nullptr, slicer |-> sl]
         ELSE [ret |-> nullptr, slicer |-> sl]
    ELSE [ret |-> Head(sl.slices),
          slicer |-> [sl EXCEPT !.slices = Tail(sl.slices)]]

\* the results getSlice may have, over the orders of the map
getSliceResults(sl, includeIncomplete) ==
    IF FirstOpenKeys(sl) = {}
    THEN {getSlice(sl, includeIncomplete, CHOOSE k \in SourceIds : TRUE)}
    ELSE {getSlice(sl, includeIncomplete, k) : k \in FirstOpenKeys(sl)}

\* completeSliceOnTimeout, lines 261-262: PartialSlice s is to be flushed
NeedsFlush(s, timestamp) ==
    ~IsNull(s.currentDataSet) /\ s.lastUpdateTime <= timestamp

\* mutant: the open set is pushed to the completed fifo and stays open
CloseOpenSet_KeepsOpenSet(sl, k) ==
    [partialSlices |-> sl.partialSlices,
     slices |-> Append(sl.slices, sl.partialSlices[k].currentDataSet)]

\* completeSliceOnTimeout, lines 263-264: the open set of key k is pushed to
\* the completed fifo and the PartialSlice is left without an open set
CloseOpenSet(sl, k) ==
    [partialSlices |-> [sl.partialSlices EXCEPT ![k].currentDataSet = nullptr],
     slices |-> Append(sl.slices, sl.partialSlices[k].currentDataSet)]

\* completeSliceOnTimeout, the loop body applied to the keys order[n..]
RECURSIVE TimeoutFrom(_, _, _, _)
TimeoutFrom(sl, timestamp, order, n) ==
    IF n > Len(order) THEN [ret |-> 0, slicer |-> sl]
    ELSE LET k == order[n]
             s == sl.partialSlices[k]
         IN IF NeedsFlush(s, timestamp)
            THEN LET r == TimeoutFrom(CloseOpenSet(sl, k), timestamp,
                                      order, n + 1)
                 IN [ret |-> r.ret + 1, slicer |-> r.slicer]
            ELSE TimeoutFrom(sl, timestamp, order, n + 1)

\* completeSliceOnTimeout: [ret |-> nFlushed, slicer |-> the slicer afterwards],
\* the map visited in order `order`
completeSliceOnTimeout(sl, timestamp, order) ==
    TimeoutFrom(sl, timestamp, order, 1)

\* the results completeSliceOnTimeout may have, over the orders of the map
\* (the keys that hold no open set are skipped by the loop in any order)
completeSliceOnTimeoutResults(sl, timestamp) ==
    {completeSliceOnTimeout(sl, timestamp, order) :
         order \in IterationOrders(OpenKeys(sl))}

(***************************************************************************)
(* State                                                                   *)
(***************************************************************************)
VARIABLES
    inputs,          \* inputs[i]: the fifo of pages of equipment i
    slicers,         \* slicers[i]: the DataBlockSlicer of input i
    output,          \* the output fifo of DataSet pointers
    nextIndex,       \* DataBlockAggregator::nextIndex
    doFlush,         \* DataBlockAggregator::doFlush
    disableSlicing,  \* configuration: passthrough mode
    cfgSliceTimeout, \* configuration: slice timeout, 0 when disabled
    outputSize,      \* configuration: number of slots of the output fifo
    timeNow,         \* the monotonic clock read by timeNow.getTime()
    pc,              \* where the worker thread is in executeCallback
    ix, cur, j,      \* executeCallback: the loop counters ix, i and j
    now,             \* executeCallback: the time sampled at its start
    nBlocksIn,       \* executeCallback: pages popped in this call
    nSlicesOut,      \* executeCallback: DataSets pushed in this call
    result,          \* the CallbackResult of the last callback
    nPages,          \* history: number of pages produced so far
    poppedLog,       \* history: poppedLog[i], the pages popped from input i
    emittedLog,      \* history: the DataSets given to output->push, in order
    delivered,       \* history: the DataSets popped by the consumer, in order
    closedBy,        \* history: how each DataSet left its PartialSlice
    released,        \* history: pages released by the aggregator (error, stop)
    lastCall,        \* history: the last completeSliceOnTimeout (SpecSlicer)
    stopPc,          \* where the main thread is in stop()
    pagesBefore      \* history: the pages produced before the last start()

\* the readout equipment ReadoutEquipmentRORC that feeds an input
VARIABLES
    mpFree,          \* mp: the pages that are free in the memory pool
    inDriver,        \* channel: the superpages of the transfer queue
    readyPages,      \* channel: the superpages of the ready queue
    heldPages,       \* the pages of the blocks that were given downstream
    dmaOn,           \* channel: startDma() was called, stopDma() was not
    isDataOn,        \* ReadoutEquipment::isDataOn
    RocFifoSize,     \* ReadoutEquipmentRORC::RocFifoSize
    pbPc,            \* where the equipment thread is in prepareBlocks
    newPage,         \* prepareBlocks: the page taken from the pool (0: nullptr)
    isActive,        \* prepareBlocks: isActive
    nPushed,         \* prepareBlocks: nPushed
    pbResult,        \* the CallbackResult of the last prepareBlocks
    nMemoryLow,      \* equipmentStats[nMemoryLow]
    nCalls,          \* history: number of calls of prepareBlocks
    pbTaken,         \* history: pages this prepareBlocks got from the pool
    pbAccepted,      \* history: pages the driver accepted in this prepareBlocks
    pbReleases,      \* history: releasePage calls of this prepareBlocks, per page
    cfgRdhUseFirstInPageEnabled, \* configuration: rdhUseFirstInPageEnabled
    cfgRdhCheckEnabled,          \* configuration: rdhCheckEnabled
    timeframePeriodOrbits,       \* configuration: TFperiod
    statsNumberOfPages,          \* pages read out
    currentTimeframe,            \* id of the current timeframe
    currentTimeframeHbOrbitBegin,\* hbOrbit of the beginning of the timeframe
    firstTimeframeHbOrbitBegin,  \* hbOrbit of the beginning of the first one
    statsRdhCheckOk,             \* RDHs that passed the check
    statsRdhCheckErr,            \* RDHs that did not pass the check
    statsRdhCheckStreamErr,      \* inconsistencies in the RDH stream
    RdhLastPacketCounter,        \* last packetCounter of each link id
    nDropWarnings,   \* history: warnings of possible packets dropped logged
    statsNumberOfPagesLost,      \* ready superpages no block was made of
    statsNumberOfPagesEmpty,     \* superpages popped that were not ready
    lastRead,        \* history: the last getNextBlock, what it got and returned
    orbitsInOrder    \* history: the hbOrbit of the valid first RDHs never went down

refillVars == <<mpFree, inDriver, readyPages, heldPages, dmaOn, isDataOn, RocFifoSize, pbPc, newPage,
                isActive, nPushed, pbResult, nMemoryLow, nCalls, pbTaken,
                pbAccepted, pbReleases>>
readoutVars == <<cfgRdhUseFirstInPageEnabled, cfgRdhCheckEnabled,
                 timeframePeriodOrbits, statsNumberOfPages, currentTimeframe,
                 currentTimeframeHbOrbitBegin, firstTimeframeHbOrbitBegin,
                 statsRdhCheckOk, statsRdhCheckErr, statsRdhCheckStreamErr,
                 RdhLastPacketCounter, nDropWarnings, statsNumberOfPagesLost,
                 statsNumberOfPagesEmpty, lastRead, orbitsInOrder>>
rorcVars == <<refillVars, readoutVars>>

cfgVars == <<disableSlicing, cfgSliceTimeout, outputSize>>

(***************************************************************************)
(* ReadoutEquipmentRORC after construction and initCounters                *)
(***************************************************************************)
\* the pages of the memory pool mp
PoolPages == 1 .. NumPages

\* unsigned 32-bit values (uint32_t), scaled to OrbitBits bits
OrbitModulus == 2 ^ OrbitBits
Orbits == 0 .. OrbitModulus - 1

\* the link ids validateRdh lets through
RdhLinks == 0 .. maxLinks

\* no getNextBlock was called.  A record of a call holds the superpage it
\* popped, the header of the block it returned (<<>> for nullptr), whether
\* it released the page, the hbOrbit it read, whether it opened a timeframe,
\* and the number of calls, the last hbOrbit read from a valid first RDH
\* (-1: none) and the timeframeId of the last block returned before it
NoRead == [sp |-> <<>>, block |-> <<>>, released |-> FALSE, hbOrbit |-> 0,
           opened |-> FALSE, n |-> 0, lastOrbit |-> -1, lastTf |-> 0]

\* prepareBlocks was not called, the driver holds no page
RefillInit ==
    /\ mpFree = PoolPages
    /\ inDriver = {}
    /\ readyPages = {}
    /\ heldPages = {}
    /\ dmaOn = FALSE
    /\ isDataOn = FALSE
    /\ RocFifoSize = 0
    /\ pbPc = "idle"
    /\ newPage = 0
    /\ isActive = 0
    /\ nPushed = 0
    /\ pbResult = "Idle"
    /\ nMemoryLow = 0
    /\ nCalls = 0
    /\ pbTaken = {}
    /\ pbAccepted = {}
    /\ pbReleases = [p \in PoolPages |-> 0]

\* lines 718-743 and the member initialisers, lines 73-104
initCounters ==
    /\ statsNumberOfPages = 0
    /\ currentTimeframe = 0
    /\ currentTimeframeHbOrbitBegin = 0
    /\ firstTimeframeHbOrbitBegin = 0
    /\ statsRdhCheckOk = 0
    /\ statsRdhCheckErr = 0
    /\ statsRdhCheckStreamErr = 0
    /\ RdhLastPacketCounter = [l \in RdhLinks |-> 0]
    /\ nDropWarnings = 0
    /\ statsNumberOfPagesLost = 0
    /\ statsNumberOfPagesEmpty = 0
    /\ lastRead = NoRead
    /\ orbitsInOrder = TRUE

\* an equipment with the default configuration, which reads no page
RorcIdle ==
    /\ RefillInit
    /\ cfgRdhUseFirstInPageEnabled = FALSE
    /\ cfgRdhCheckEnabled = FALSE
    /\ timeframePeriodOrbits = defaultTFperiod
    /\ initCounters
aggVars == <<inputs, slicers, output, nextIndex, doFlush, timeNow>>
cbVars == <<pc, ix, cur, j, now, nBlocksIn, nSlicesOut, result>>
histVars == <<nPages, poppedLog, emittedLog, delivered, closedBy, released,
              lastCall>>
threadVars == <<stopPc, pagesBefore>>
vars == <<cfgVars, aggVars, cbVars, histVars, rorcVars, threadVars>>

\* the slice timeouts the model is configured with (0: disabled; the value
\* is not read in passthrough mode, which is run with 0 only)
SliceTimeouts == {0, 1}

(***************************************************************************)
(* Fifo, as the aggregator uses it                                         *)
(***************************************************************************)
isFull(q, capacity) == Len(q) >= capacity
isEmpty(q) == Len(q) = 0
\* push on a full fifo fails and the item is not stored
push(q, x, capacity) == IF isFull(q, capacity) THEN q ELSE Append(q, x)

\* no call on a slicer is recorded.  A record of a call holds the operation,
\* its argument, the value it returned and, in `again`, the value the call
\* just before it returned when that was completeSliceOnTimeout with the same
\* argument (-1 otherwise)
NoCall == [op |-> "", arg |-> 0, ret |-> 0, again |-> -1]

\* the aggregator after the constructor, addInput for every input, and
\* start(), configured with a slice timeout of the set `timeouts`
AggregatorStarted(timeouts) ==
    /\ inputs = [i \in Inputs |-> <<>>]
    /\ slicers = [i \in Inputs |-> NewSlicer]
    /\ output = <<>>
    /\ nextIndex = 0
    /\ doFlush = FALSE
    /\ disableSlicing \in BOOLEAN
    /\ cfgSliceTimeout \in IF disableSlicing THEN {0} ELSE timeouts
    /\ outputSize = IF cfgSliceTimeout = 0 THEN OutputCapacity
                    ELSE OutputCapacity + 1
    /\ timeNow = 0
    /\ pc = "idle"
    /\ ix = 0 /\ cur = 0 /\ j = 0 /\ now = 0
    /\ nBlocksIn = 0 /\ nSlicesOut = 0
    /\ result = "Idle"
    /\ nPages = 0
    /\ poppedLog = [i \in Inputs |-> <<>>]
    /\ emittedLog = <<>>
    /\ delivered = <<>>
    /\ closedBy = {}
    /\ released = {}
    /\ lastCall = NoCall
    /\ stopPc = "running"
    /\ pagesBefore = 0

\* the aggregator configured without timeout or with a timeout of one tick
AggregatorInit == AggregatorStarted(SliceTimeouts)

\* the state after construction: the aggregator and an equipment left idle
Init == AggregatorInit /\ RorcIdle

(***************************************************************************)
(* Environment: producers, consumer, clock, flush command                  *)
(***************************************************************************)
\* the equipment thread of input i pushes a page with tags (e, l, t)
Produce(i, e, l, t) ==
    /\ nPages < MaxPages
    /\ ~isFull(inputs[i], InputCapacity)
    /\ nPages' = nPages + 1
    /\ inputs' = [inputs EXCEPT ![i] = Append(@, Page(nPages + 1, e, l, t))]
    /\ UNCHANGED <<slicers, output, nextIndex, doFlush, timeNow>>
    /\ UNCHANGED <<cfgVars, rorcVars, threadVars, cbVars>>
    /\ UNCHANGED <<poppedLog, emittedLog, delivered, closedBy, released>>
    /\ UNCHANGED lastCall

\* a consumer pops the oldest DataSet of the output fifo
Consume ==
    /\ ~isEmpty(output)
    /\ delivered' = Append(delivered, Head(output))
    /\ output' = Tail(output)
    /\ UNCHANGED <<inputs, slicers, nextIndex, doFlush, timeNow>>
    /\ UNCHANGED <<cfgVars, rorcVars, threadVars, cbVars>>
    /\ UNCHANGED <<nPages, poppedLog, emittedLog, closedBy, released>>
    /\ UNCHANGED lastCall

\* time passes.  The code reads the clock only to stamp an open set and to
\* compare the stamp with a later reading, so a tick with no open set
\* anywhere only shifts every later reading: it is left out.
Tick ==
    /\ timeNow < MaxTime
    /\ \E i \in Inputs : OpenKeys(slicers[i]) # {}
    /\ cfgSliceTimeout # 0 /\ ~disableSlicing  \* else the clock is never read
    /\ timeNow' = timeNow + 1
    /\ UNCHANGED <<inputs, slicers, output, nextIndex, doFlush>>
    /\ UNCHANGED <<cfgVars, rorcVars, threadVars, cbVars, histVars>>

\* the flush command
Flush ==
    /\ ~doFlush
    /\ doFlush' = TRUE
    /\ UNCHANGED <<inputs, slicers, output, nextIndex, timeNow>>
    /\ UNCHANGED <<cfgVars, rorcVars, threadVars, cbVars, histVars>>

(***************************************************************************)
(* History helpers                                                         *)
(***************************************************************************)
\* identity of a DataSet: the ids of its pages, in order
IdsOf(ds) == [n \in 1 .. Len(ds) |-> ds[n].id]

\* the closing records of the pointers q[from..], closed the way `how`
Closings(q, from, how) ==
    {[set |-> IdsOf(Deref(q[n])), how |-> how] : n \in from .. Len(q)}

(***************************************************************************)
(* The worker: DataBlockAggregator::threadCallback / executeCallback.      *)
(* A step of the callback is a function from the state the worker reads    *)
(* and writes (a record st) to the set of states it may leave.             *)
(***************************************************************************)
\* the variables the worker reads and writes, as a record
State ==
    [inputs |-> inputs, slicers |-> slicers, output |-> output,
     nextIndex |-> nextIndex, doFlush |-> doFlush,
     pc |-> pc, ix |-> ix, cur |-> cur, j |-> j, now |-> now,
     nBlocksIn |-> nBlocksIn, nSlicesOut |-> nSlicesOut, result |-> result,
     poppedLog |-> poppedLog, emittedLog |-> emittedLog,
     closedBy |-> closedBy, released |-> released]

\* the worker leaves the state st
Install(st) ==
    /\ inputs' = st.inputs
    /\ slicers' = st.slicers
    /\ output' = st.output
    /\ nextIndex' = st.nextIndex
    /\ doFlush' = st.doFlush
    /\ pc' = st.pc
    /\ ix' = st.ix
    /\ cur' = st.cur
    /\ j' = st.j
    /\ now' = st.now
    /\ nBlocksIn' = st.nBlocksIn
    /\ nSlicesOut' = st.nSlicesOut
    /\ result' = st.result
    /\ poppedLog' = st.poppedLog
    /\ emittedLog' = st.emittedLog
    /\ closedBy' = st.closedBy
    /\ released' = st.released

\* mutant: the output is pushed to without looking at its depth
OutputIsFull_NotChecked(st) == FALSE

\* lines 43, 88, 104, 154: output->isFull()
OutputIsFull(st) == isFull(st.output, outputSize)

\* line 100: the input served at loop index nix when nextIndex is nextIdx
InputAt(nix, nextIdx) == (nix + nextIdx) % nInputs

\* an includeIncomplete that does not look at the input fifo
IncludeIncomplete_FlushOnly(st, i) == st.doFlush

\* lines 157-160: getSlice may hand out an open set of input i
IncludeIncomplete(st, i) == st.doFlush /\ isEmpty(st.inputs[i])

\* the for loop of line 99 moves to index nix
LoopTo(st, nix) ==
    IF nix < nInputs
    THEN [st EXCEPT !.ix = nix, !.cur = InputAt(nix, st.nextIndex), !.j = 0,
                    !.pc = IF disableSlicing THEN "pass" ELSE "populate"]
    ELSE [st EXCEPT !.ix = nix, !.pc = "end"]

\* the callback returns r (its locals are dead afterwards and are reset); on
\* Error the thread leaves its loop
Return(st, r) ==
    [st EXCEPT !.pc = IF r = "Error" THEN "error" ELSE "idle",
               !.result = r,
               !.ix = 0, !.cur = 0, !.j = 0, !.now = 0,
               !.nBlocksIn = 0, !.nSlicesOut = 0]

\* output->push(bcv) of a DataSet taken from input i, closed the way `how`
\* ("" when its closing is already recorded)
PushOutput(st, i, bcv, how) ==
    [st EXCEPT !.output = push(@, bcv, outputSize),
               !.nSlicesOut = @ + 1,
               !.emittedLog = Append(@, [input |-> i, set |-> Deref(bcv)]),
               !.closedBy = IF how = "" THEN @
                            ELSE @ \cup {[set |-> IdsOf(Deref(bcv)),
                                          how |-> how]}]

\* lines 37-48 and 86-97: the thread calls the callback
CbEnter(st) ==
    IF OutputIsFull(st)
    THEN {Return(st, "Idle")}
    ELSE {LoopTo([st EXCEPT !.now = timeNow, !.nBlocksIn = 0,
                            !.nSlicesOut = 0], 0)}

\* a passthrough that wraps all the pages waiting in the input in one DataSet
CbPassthrough_WrapsWholeInput(st) ==
    IF OutputIsFull(st)
    THEN {Return(st, "Idle")}
    ELSE IF isEmpty(st.inputs[st.cur])
    THEN {LoopTo(st, st.ix + 1)}
    ELSE LET i == st.cur
             st1 == [st EXCEPT !.inputs[i] = <<>>,
                               !.nBlocksIn = @ + Len(st.inputs[i]),
                               !.poppedLog[i] = @ \o st.inputs[i]]
         IN {LoopTo(PushOutput(st1, i, Ref(st.inputs[i]), "passthrough"),
                    st.ix + 1)}

\* lines 102-124: one loop iteration in passthrough mode
CbPassthrough(st) ==
    IF OutputIsFull(st)
    THEN {Return(st, "Idle")}
    ELSE IF isEmpty(st.inputs[st.cur])
    THEN {LoopTo(st, st.ix + 1)}
    ELSE LET i == st.cur
             b == Head(st.inputs[i])
             st1 == [st EXCEPT !.inputs[i] = Tail(@),
                               !.nBlocksIn = @ + 1,
                               !.poppedLog[i] = Append(@, b)]
         IN {LoopTo(PushOutput(st1, i, Ref(<<b>>), "passthrough"),
                    st.ix + 1)}

\* lines 129-145: one iteration of the loop that populates the slices
CbPopulate(st) ==
    LET i == st.cur
        b == Head(st.inputs[i])
        r == appendBlock(st.slicers[i], b, st.now)
        st1 == [st EXCEPT !.inputs[i] = Tail(@),
                          !.nBlocksIn = @ + 1,
                          !.poppedLog[i] = Append(@, b)]
    IN IF r.ret <= 0
       THEN {Return([st1 EXCEPT !.released = @ \cup {b.id}], "Error")}
       ELSE {[st1 EXCEPT !.slicers[i] = r.slicer,
                         !.j = @ + 1,
                         !.closedBy = @ \cup
                             Closings(r.slicer.slices,
                                      Len(st.slicers[i].slices) + 1,
                                      "boundary")]}

\* lines 147-150: close incomplete slices on timeout
CbTimeout(st) ==
    LET i == st.cur
    IN IF cfgSliceTimeout # 0
       THEN {[st EXCEPT !.slicers[i] = r.slicer,
                        !.closedBy = @ \cup
                            Closings(r.slicer.slices,
                                     Len(st.slicers[i].slices) + 1,
                                     "timeout"),
                        !.pc = "retrieve", !.j = 0]
             : r \in completeSliceOnTimeoutResults(
                         st.slicers[st.cur], st.now - cfgSliceTimeout)}
       ELSE {[st EXCEPT !.pc = "retrieve", !.j = 0]}

\* lines 153-169: one iteration of the loop that retrieves completed slices
CbRetrieve(st) ==
    IF st.j >= maxLoop
    THEN {LoopTo(st, st.ix + 1)}
    ELSE IF OutputIsFull(st)
    THEN {Return(st, "Idle")}
    ELSE {LET i == st.cur
              bcv == r.ret
              how == IF isEmpty(st.slicers[i].slices) THEN "flush" ELSE ""
          IN IF IsNull(bcv)
             THEN LoopTo(st, st.ix + 1)
             ELSE [PushOutput([st EXCEPT !.slicers[i] = r.slicer],
                              i, bcv, how)
                   EXCEPT !.nextIndex = i + 1, !.j = st.j + 1]
          : r \in getSliceResults(st.slicers[st.cur],
                                  IncludeIncomplete(st, st.cur))}

\* an end of callback that clears doFlush whatever the callback did
CbEnd_AlwaysClearsFlush(st) ==
    IF st.nBlocksIn = 0 /\ st.nSlicesOut = 0
    THEN {Return([st EXCEPT !.doFlush = FALSE], "Idle")}
    ELSE {Return([st EXCEPT !.doFlush = FALSE], "Ok")}

\* lines 172-179: the loop over the inputs is over
CbEnd(st) ==
    IF st.nBlocksIn = 0 /\ st.nSlicesOut = 0
    THEN {Return([st EXCEPT !.doFlush = FALSE], "Idle")}
    ELSE {Return(st, "Ok")}

\* the states one step of the worker leads to from st
StepOf(st) ==
    CASE st.pc = "idle" -> CbEnter(st)
      [] st.pc = "pass" -> CbPassthrough(st)
      [] st.pc = "populate" ->
             IF st.j < maxLoop /\ ~isEmpty(st.inputs[st.cur])
             THEN CbPopulate(st) ELSE CbTimeout(st)
      [] st.pc = "retrieve" -> CbRetrieve(st)
      [] st.pc = "end" -> CbEnd(st)
      [] OTHER -> {}

\* the states in which a callback started in st may return
RECURSIVE RunToReturn(_)
RunToReturn(st) ==
    IF st.pc \in {"idle", "error"} THEN {st}
    ELSE UNION {RunToReturn(s) : s \in StepOf(st)}

\* the thread runs one callback, from its call to its return
executeCallback ==
    /\ pc = "idle"
    /\ \E st \in UNION {RunToReturn(s) : s \in CbEnter(State)} : Install(st)
    /\ UNCHANGED <<cfgVars, rorcVars, threadVars, timeNow, nPages, delivered,
                   lastCall>>

Next ==
    \/ \E i \in Inputs : \E tag \in TagsOf(i) :
         Produce(i, tag[1], tag[2], tag[3])
    \/ Consume
    \/ Tick
    \/ Flush
    \/ executeCallback

Spec == Init /\ [][Next]_vars

\* the slice timeouts that are not positive: the default and a negative one
NonPositiveTimeouts == {0, -1}

\* the aggregator slices and is configured with a timeout that is not positive
InitTimeoutOff ==
    AggregatorStarted(NonPositiveTimeouts) /\ ~disableSlicing /\ RorcIdle

\* the steps of that aggregator.  No tick: with the timeout 0 the clock is
\* not read, and with a negative one every open set is older than the
\* threshold now - cfgSliceTimeout in the callback that opens it, whatever
\* the clock reads
NextTimeoutOff ==
    \/ \E i \in Inputs : \E tag \in TagsOf(i) :
         Produce(i, tag[1], tag[2], tag[3])
    \/ Consume
    \/ Flush
    \/ executeCallback

SpecTimeoutOff == InitTimeoutOff /\ [][NextTimeoutOff]_vars

(***************************************************************************)
(* The aggregator with its stop command.                                   *)
(***************************************************************************)
\* the identities of the pages waiting in the input fifos
RECURSIVE IdsInInputs(_)
IdsInInputs(I) ==
    IF I = {} THEN {}
    ELSE LET i == CHOOSE x \in I : TRUE
         IN {inputs[i][n].id : n \in 1 .. Len(inputs[i])}
                \cup IdsInInputs(I \ {i})

\* the identities of the pages of the DataSets of the output fifo
IdsInOutput ==
    UNION {{Deref(output[n])[m].id : m \in 1 .. Len(Deref(output[n]))} :
           n \in 1 .. Len(output)}

\* stop(waitStop) with waitStop set, lines 59-84: the thread is stopped and
\* joined (it is out of its callback), then the input fifos are cleared and
\* the output fifo is emptied, the DataSets popped from it cleared
stop ==
    /\ pc \in {"idle", "error"}
    /\ pc' = "stopped"
    /\ stopPc' = "drained"
    /\ UNCHANGED pagesBefore
    /\ doFlush' = FALSE
    /\ inputs' = [i \in Inputs |-> <<>>]
    /\ output' = <<>>
    /\ released' = released \cup IdsInInputs(Inputs) \cup IdsInOutput
    /\ UNCHANGED <<slicers, nextIndex, timeNow, cfgVars, rorcVars>>
    /\ UNCHANGED <<ix, cur, j, now, nBlocksIn, nSlicesOut, result>>
    /\ UNCHANGED <<nPages, poppedLog, emittedLog, delivered, closedBy,
                   lastCall>>

\* the aggregator runs until it is stopped
NextStop ==
    \/ /\ pc # "stopped"
       /\ \E i \in Inputs : \E tag \in TagsOf(i) :
             Produce(i, tag[1], tag[2], tag[3])
    \/ pc # "stopped" /\ Consume
    \/ pc # "stopped" /\ Tick
    \/ pc # "stopped" /\ Flush
    \/ executeCallback
    \/ stop

SpecStop == Init /\ [][NextStop]_vars

\* start(), lines 50-57, after a stop(): doFlush and the timer are reset and
\* the thread is started again; the slicers are left as they are
start ==
    /\ pc = "stopped"
    /\ pc' = "idle"
    /\ stopPc' = "running"
    /\ pagesBefore' = nPages
    /\ doFlush' = FALSE
    /\ timeNow' = 0
    /\ UNCHANGED <<inputs, slicers, output, nextIndex, cfgVars, rorcVars>>
    /\ UNCHANGED <<ix, cur, j, now, nBlocksIn, nSlicesOut, result>>
    /\ UNCHANGED histVars

\* the aggregator is stopped and started again; the flush command may come
\* while it is stopped
NextRestart ==
    \/ /\ pc # "stopped"
       /\ \E i \in Inputs : \E tag \in TagsOf(i) :
             Produce(i, tag[1], tag[2], tag[3])
    \/ pc # "stopped" /\ Consume
    \/ pc # "stopped" /\ Tick
    \/ Flush
    \/ executeCallback
    \/ stop
    \/ start

SpecRestart == Init /\ [][NextRestart]_vars

(***************************************************************************)
(* stop(waitStop) with waitStop not set: the thread is asked to stop and   *)
(* is not joined.  It ends the callback it is in, one step at a time, and  *)
(* starts no other one, while stop() goes on.                              *)
(***************************************************************************)
\* lines 60-64: doFlush = 0, aggregateThread->stop(), no join
stopRequest ==
    /\ stopPc = "running"
    /\ stopPc' = "requested"
    /\ UNCHANGED pagesBefore
    /\ doFlush' = FALSE
    /\ UNCHANGED <<inputs, slicers, output, nextIndex, timeNow>>
    /\ UNCHANGED <<cfgVars, rorcVars, cbVars, histVars>>

\* lines 65-83: the input fifos are cleared and the output fifo is emptied
stopDrain ==
    /\ stopPc = "requested"
    /\ stopPc' = "drained"
    /\ UNCHANGED pagesBefore
    /\ inputs' = [i \in Inputs |-> <<>>]
    /\ output' = <<>>
    /\ released' = released \cup IdsInInputs(Inputs) \cup IdsInOutput
    /\ UNCHANGED <<slicers, nextIndex, doFlush, timeNow>>
    /\ UNCHANGED <<cfgVars, rorcVars, cbVars>>
    /\ UNCHANGED <<nPages, poppedLog, emittedLog, delivered, closedBy,
                   lastCall>>

\* the thread takes one step of its callback; it starts a callback only
\* while it was not asked to stop
WorkerUntilStop ==
    /\ pc # "idle" \/ stopPc = "running"
    /\ \E st \in StepOf(State) : Install(st)
    /\ UNCHANGED <<cfgVars, rorcVars, threadVars, timeNow, nPages, delivered,
                   lastCall>>

\* the producers and the consumer run until stop() is called
NextStopNoWait ==
    \/ /\ stopPc = "running"
       /\ \E i \in Inputs : \E tag \in TagsOf(i) :
             Produce(i, tag[1], tag[2], tag[3])
    \/ stopPc = "running" /\ Consume
    \/ WorkerUntilStop
    \/ stopRequest
    \/ stopDrain

SpecStopNoWait == Init /\ [][NextStopNoWait]_vars

(***************************************************************************)
(* The worker one step at a time: the producers, the consumer and the      *)
(* flush command run between any two steps of a callback.                  *)
(***************************************************************************)
\* the worker thread takes one step of threadCallback / executeCallback
WorkerStep ==
    /\ \E st \in StepOf(State) : Install(st)
    /\ UNCHANGED <<cfgVars, rorcVars, threadVars, timeNow, nPages, delivered,
                   lastCall>>

NextConcurrent ==
    \/ \E i \in Inputs : \E tag \in TagsOf(i) :
         Produce(i, tag[1], tag[2], tag[3])
    \/ Consume
    \/ Tick
    \/ Flush
    \/ WorkerStep

SpecConcurrent == Init /\ [][NextConcurrent]_vars

\* the worker of an aggregator that slices without timeout
InitSlicing == Init /\ ~disableSlicing /\ cfgSliceTimeout = 0

NextSlicing ==
    \/ \E i \in Inputs : \E tag \in TagsOf(i) :
         Produce(i, tag[1], tag[2], tag[3])
    \/ Consume
    \/ Flush
    \/ WorkerStep

SpecSlicing == InitSlicing /\ [][NextSlicing]_vars

(***************************************************************************)
(* The aggregator under saturated inputs: the producers refill the inputs  *)
(* from a pool of pages, the thread loops on its callback and the consumer *)
(* pops the output, for ever.  The fifos hold 2*maxLoop items.  The pages  *)
(* carry no identity and the histories keep the last callback only, so     *)
(* that a run goes on for ever within finitely many states.  In slicing    *)
(* mode every page has the sentinel timeframe: each page closes the open   *)
(* set of its source, so that each page pushed is a DataSet to deliver.    *)
(***************************************************************************)
PoolSize == 6

SatFifoSize == 2 * maxLoop

\* the tags of the pages of input i: in passthrough mode one source per
\* input and a link id out of range, in slicing mode the sentinel timeframe
SatTagsOf(i) ==
    IF disableSlicing
    THEN (IF i = 0 THEN {<<1, 0, 1>>, <<1, wrongLinkId, 1>>} ELSE {<<2, 0, 1>>})
    ELSE IF i = 0 THEN {<<1, 0, undefinedTimeframeId>>,
                        <<1, undefinedLinkId, undefinedTimeframeId>>}
    ELSE {<<2, 0, undefinedTimeframeId>>}

\* number of pages of the DataSets of the fifo q
RECURSIVE PagesInSets(_)
PagesInSets(q) ==
    IF q = <<>> THEN 0
    ELSE (IF IsNull(Head(q)) THEN 0 ELSE Len(Deref(Head(q))))
         + PagesInSets(Tail(q))

\* number of pages in the open sets of the keys K of slicer sl
RECURSIVE PagesInOpenSets(_, _)
PagesInOpenSets(sl, K) ==
    IF K = {} THEN 0
    ELSE LET k == CHOOSE x \in K : TRUE
         IN Len(Deref(sl.partialSlices[k].currentDataSet))
            + PagesInOpenSets(sl, K \ {k})

\* number of pages held by input i and its slicer
PagesOfInput(i) ==
    Len(inputs[i]) + PagesInSets(slicers[i].slices)
    + PagesInOpenSets(slicers[i], OpenKeys(slicers[i]))

\* number of pages out of the pool
RECURSIVE PagesOfInputs(_)
PagesOfInputs(S) ==
    IF S = {} THEN 0
    ELSE LET i == CHOOSE x \in S : TRUE
         IN PagesOfInput(i) + PagesOfInputs(S \ {i})

PagesInFlight == PagesOfInputs(Inputs) + PagesInSets(output)

InitSaturated ==
    /\ inputs = [i \in Inputs |-> <<>>]
    /\ slicers = [i \in Inputs |-> NewSlicer]
    /\ output = <<>>
    /\ nextIndex = 0
    /\ doFlush = FALSE
    /\ disableSlicing \in BOOLEAN
    /\ cfgSliceTimeout = 0
    /\ outputSize = SatFifoSize
    /\ timeNow = 0
    /\ pc = "idle"
    /\ ix = 0 /\ cur = 0 /\ j = 0 /\ now = 0
    /\ nBlocksIn = 0 /\ nSlicesOut = 0
    /\ result = "Idle"
    /\ nPages = 0
    /\ poppedLog = [i \in Inputs |-> <<>>]
    /\ emittedLog = <<>>
    /\ delivered = <<>>
    /\ closedBy = {}
    /\ released = {}
    /\ lastCall = NoCall
    /\ stopPc = "running"
    /\ pagesBefore = 0
    /\ RorcIdle

\* the equipment of input i takes a page from the pool and pushes it
SatProduce(i, e, l, t) ==
    /\ ~isFull(inputs[i], SatFifoSize)
    /\ PagesInFlight < PoolSize
    /\ inputs' = [inputs EXCEPT ![i] = Append(@, Page(0, e, l, t))]
    /\ UNCHANGED <<slicers, output, nextIndex, doFlush, timeNow>>
    /\ UNCHANGED <<cfgVars, rorcVars, threadVars, cbVars, histVars>>

\* the equipment of input i refills its fifo
SatRefill(i) == \E tag \in SatTagsOf(i) : SatProduce(i, tag[1], tag[2], tag[3])

\* the consumer frees one slot of the output, the pages go back to the pool
SatConsume ==
    /\ ~isEmpty(output)
    /\ output' = Tail(output)
    /\ UNCHANGED <<inputs, slicers, nextIndex, doFlush, timeNow>>
    /\ UNCHANGED <<cfgVars, rorcVars, threadVars, cbVars, histVars>>

\* the state a callback starts from, the histories of the earlier callbacks
\* forgotten
LastCallbackOnly ==
    [State EXCEPT !.poppedLog = [i \in Inputs |-> <<>>],
                  !.emittedLog = <<>>,
                  !.closedBy = {}]

\* the thread runs one callback, from its call to its return
SatCallback ==
    /\ pc = "idle"
    /\ \E st \in UNION {RunToReturn(s) : s \in CbEnter(LastCallbackOnly)} :
          Install(st)
    /\ UNCHANGED <<cfgVars, rorcVars, threadVars, timeNow, nPages, delivered,
                   lastCall>>

NextSaturated ==
    \/ \E i \in Inputs : SatRefill(i)
    \/ SatConsume
    \/ SatCallback

\* the thread loops on its callback, the consumer keeps popping and every
\* equipment pushes a page whenever, again and again, its fifo has room and
\* the pool has a page
SpecSaturated ==
    /\ InitSaturated
    /\ [][NextSaturated]_vars
    /\ WF_vars(SatCallback)
    /\ WF_vars(SatConsume)
    /\ \A i \in Inputs : SF_vars(SatRefill(i))

\* the saturated runs of an aggregator constructed with disableSlicing set
InitPassthrough == InitSaturated /\ disableSlicing

SpecPassthrough == InitPassthrough /\ [][NextSaturated]_vars

(***************************************************************************)
(* A DataBlockSlicer driven directly: slicers[0] is called by a bench that *)
(* feeds pages (appendBlock), retrieves the completed DataSets             *)
(* (getSlice(false)) and, when the feed is over, flushes, retrieving with  *)
(* getSlice(true): SpecSlicer.  In SpecSlicerTimeout the bench is          *)
(* configured with a timeout and also closes open sets on timeout          *)
(* (completeSliceOnTimeout).  poppedLog[0] is the pages fed, emittedLog    *)
(* the DataSets retrieved.                                                 *)
(***************************************************************************)
\* the tags of the pages fed: one source over two defined timeframes and the
\* sentinel timeframe, a second source (the sentinel link) and a link id out
\* of range
FeedTags == {<<1, 0, 7>>, <<1, 0, 8>>, <<1, 0, undefinedTimeframeId>>,
             <<1, undefinedLinkId, 7>>, <<1, wrongLinkId, 7>>}

\* the timestamps the bench passes (the timestamp is of no use when no
\* timeout is configured)
Timestamps == IF cfgSliceTimeout = 0 THEN {0} ELSE 0 .. MaxTime

\* the number of pages the bench feeds
FeedLimit == IF cfgSliceTimeout = 0 THEN MaxFeed ELSE MaxTimedFeed

InitSlicer == Init /\ ~disableSlicing /\ cfgSliceTimeout = 0
InitSlicerTimeout == Init /\ ~disableSlicing /\ cfgSliceTimeout # 0

\* the variables of the aggregator around the slicer, which the bench leaves
benchUnchanged ==
    UNCHANGED <<inputs, output, nextIndex, cfgVars, rorcVars, threadVars, cbVars,
                delivered, closedBy, released>>

\* appendBlock(b, timestamp) on a page tagged (e, l, t); the timestamps of
\* successive calls do not decrease
SlAppend(e, l, t, timestamp) ==
    /\ nPages < FeedLimit
    /\ ~doFlush
    /\ timestamp >= timeNow
    /\ LET b == Page(nPages + 1, e, l, t)
           r == appendBlock(slicers[0], b, timestamp)
       IN /\ slicers' = [slicers EXCEPT ![0] = r.slicer]
          /\ poppedLog' = [poppedLog EXCEPT ![0] = Append(@, b)]
    /\ nPages' = nPages + 1
    /\ timeNow' = timestamp
    /\ lastCall' = NoCall
    /\ UNCHANGED <<emittedLog, doFlush>>
    /\ benchUnchanged

\* completeSliceOnTimeout(timestamp); lastCall is the last such call since
\* the last appendBlock
SlTimeout(timestamp) ==
    /\ cfgSliceTimeout # 0
    /\ \E r \in completeSliceOnTimeoutResults(slicers[0], timestamp) :
          /\ slicers' = [slicers EXCEPT ![0] = r.slicer]
          /\ lastCall' =
                 [op |-> "completeSliceOnTimeout", arg |-> timestamp,
                  ret |-> r.ret,
                  again |-> IF /\ lastCall.op = "completeSliceOnTimeout"
                               /\ lastCall.arg = timestamp
                            THEN lastCall.ret ELSE -1]
    /\ UNCHANGED <<nPages, timeNow, poppedLog, emittedLog, doFlush>>
    /\ benchUnchanged

\* getSlice(includeIncomplete), the open sets asked for once the feed is over
SlGetSlice ==
    /\ \E r \in getSliceResults(slicers[0], doFlush) :
          /\ slicers' = [slicers EXCEPT ![0] = r.slicer]
          /\ emittedLog' = IF IsNull(r.ret) THEN emittedLog
                           ELSE Append(emittedLog,
                                       [input |-> 0, set |-> Deref(r.ret)])
    /\ UNCHANGED <<nPages, timeNow, poppedLog, doFlush, lastCall>>
    /\ benchUnchanged

\* the feed is over: from now on the bench asks getSlice for the open sets
SlFlush ==
    /\ ~doFlush
    /\ doFlush' = TRUE
    /\ UNCHANGED <<slicers, nPages, timeNow, poppedLog, emittedLog, lastCall>>
    /\ benchUnchanged

NextSlicer ==
    \/ \E tag \in FeedTags : \E timestamp \in Timestamps :
         SlAppend(tag[1], tag[2], tag[3], timestamp)
    \/ SlGetSlice
    \/ SlFlush

SpecSlicer == InitSlicer /\ [][NextSlicer]_vars

NextSlicerTimeout ==
    \/ \E tag \in FeedTags : \E timestamp \in Timestamps :
         SlAppend(tag[1], tag[2], tag[3], timestamp)
    \/ \E timestamp \in Timestamps : SlTimeout(timestamp)
    \/ SlGetSlice
    \/ SlFlush

SpecSlicerTimeout == InitSlicerTimeout /\ [][NextSlicerTimeout]_vars

(***************************************************************************)
(* ReadoutEquipmentRORC::prepareBlocks, one step at a time: the equipment  *)
(* thread refills the driver with free pages while the main thread may     *)
(* switch the data off.  The driver moves the superpages to its ready      *)
(* queue, the thread pops them between two refills and the pages come back *)
(* to the pool when the blocks are released downstream.                    *)
(***************************************************************************)
\* the variables of the aggregator and of the readout of pages, which the
\* refill leaves alone
refillUnchanged ==
    UNCHANGED <<cfgVars, aggVars, cbVars, histVars, readoutVars, threadVars>>

\* channel->getTransferQueueAvailable()
getTransferQueueAvailable == RocQueueDepth - Cardinality(inDriver)

\* lines 679-700: startDma, the depth of the queue is read, data is on
setDataOn ==
    /\ ~isDataOn
    /\ dmaOn' = TRUE
    /\ RocFifoSize' = IF getTransferQueueAvailable = 0 THEN 1
                      ELSE getTransferQueueAvailable
    /\ isDataOn' = TRUE
    /\ UNCHANGED <<mpFree, inDriver, readyPages, heldPages, pbPc, newPage, isActive, nPushed, pbResult,
                   nMemoryLow, nCalls, pbTaken, pbAccepted, pbReleases>>
    /\ refillUnchanged

\* lines 702-716: data is off, stopDma disables pushSuperpage at once
setDataOff ==
    /\ isDataOn
    /\ isDataOn' = FALSE
    /\ dmaOn' = FALSE
    /\ UNCHANGED <<mpFree, inDriver, readyPages, heldPages, RocFifoSize, pbPc, newPage, isActive,
                   nPushed, pbResult, nMemoryLow, nCalls, pbTaken, pbAccepted,
                   pbReleases>>
    /\ refillUnchanged

\* lines 317-363: the thread calls prepareBlocks
PbEnter ==
    /\ pbPc = "idle"
    /\ nCalls < MaxRefills
    /\ nCalls' = nCalls + 1
    /\ pbTaken' = {}
    /\ pbAccepted' = {}
    /\ pbReleases' = [p \in PoolPages |-> 0]
    /\ IF ~isDataOn
       THEN /\ pbResult' = "Idle"
            /\ UNCHANGED <<pbPc, isActive, nPushed>>
       ELSE /\ pbPc' = "loop"
            /\ isActive' = 0
            /\ nPushed' = 0
            /\ UNCHANGED pbResult
    /\ UNCHANGED <<mpFree, inDriver, readyPages, heldPages, dmaOn, isDataOn, RocFifoSize, newPage,
                   nMemoryLow>>
    /\ refillUnchanged

\* lines 364-366 and 391-395: the test of the loop and mp->getPage()
PbGetPage ==
    /\ pbPc = "loop"
    /\ IF getTransferQueueAvailable = 0
       THEN /\ pbPc' = "end"
            /\ UNCHANGED <<mpFree, newPage, isActive, nMemoryLow, pbTaken>>
       ELSE IF mpFree = {}
       THEN /\ nMemoryLow' = nMemoryLow + 1
            /\ isActive' = 0
            /\ pbPc' = "end"
            /\ UNCHANGED <<mpFree, newPage, pbTaken>>
       ELSE \E p \in mpFree :
            /\ mpFree' = mpFree \ {p}
            /\ newPage' = p
            /\ pbTaken' = pbTaken \cup {p}
            /\ pbPc' = "push"
            /\ UNCHANGED <<isActive, nMemoryLow>>
    /\ UNCHANGED <<inDriver, readyPages, heldPages, dmaOn, isDataOn, RocFifoSize, nPushed, pbResult,
                   nCalls, pbAccepted, pbReleases>>
    /\ refillUnchanged

\* channel->pushSuperpage(superpage): the driver takes the superpage while
\* the DMA is on and its queue has room
pushSuperpage == dmaOn /\ getTransferQueueAvailable # 0

\* a refill that keeps the page the driver refused
PbPush_KeepsRefusedPage ==
    /\ pbPc = "push"
    /\ IF pushSuperpage
       THEN /\ inDriver' = inDriver \cup {newPage}
            /\ isActive' = 1
            /\ nPushed' = nPushed + 1
            /\ pbAccepted' = pbAccepted \cup {newPage}
            /\ pbPc' = "loop"
            /\ UNCHANGED <<mpFree, pbReleases>>
       ELSE /\ isActive' = 0
            /\ pbPc' = "end"
            /\ UNCHANGED <<mpFree, pbReleases, inDriver, nPushed, pbAccepted>>
    /\ newPage' = 0
    /\ UNCHANGED <<readyPages, heldPages, dmaOn, isDataOn, RocFifoSize, pbResult,
                   nMemoryLow, nCalls, pbTaken>>
    /\ refillUnchanged

\* lines 367-390: the page is made a superpage and pushed to the driver
PbPush ==
    /\ pbPc = "push"
    /\ IF pushSuperpage
       THEN /\ inDriver' = inDriver \cup {newPage}
            /\ isActive' = 1
            /\ nPushed' = nPushed + 1
            /\ pbAccepted' = pbAccepted \cup {newPage}
            /\ pbPc' = "loop"
            /\ UNCHANGED <<mpFree, pbReleases>>
       ELSE /\ mpFree' = mpFree \cup {newPage}
            /\ pbReleases' = [pbReleases EXCEPT ![newPage] = @ + 1]
            /\ isActive' = 0
            /\ pbPc' = "end"
            /\ UNCHANGED <<inDriver, nPushed, pbAccepted>>
    /\ newPage' = 0
    /\ UNCHANGED <<readyPages, heldPages, dmaOn, isDataOn, RocFifoSize, pbResult,
                   nMemoryLow, nCalls, pbTaken>>
    /\ refillUnchanged

\* lines 397-425: statistics, fillSuperpages and the result of the callback
PbReturn ==
    /\ pbPc = "end"
    /\ LET active == IF nPushed < RocFifoSize \div 4 THEN 0 ELSE isActive
       IN /\ isActive' = active
          /\ pbResult' = IF active = 0 THEN "Idle" ELSE "Ok"
    /\ pbPc' = "idle"
    /\ UNCHANGED <<mpFree, inDriver, readyPages, heldPages, dmaOn, isDataOn, RocFifoSize, newPage,
                   nPushed, nMemoryLow, nCalls, pbTaken, pbAccepted, pbReleases>>
    /\ refillUnchanged

\* the driver moves a superpage of the transfer queue to the ready queue:
\* it has filled it, or the DMA was stopped and the superpage is left over
DriverFills ==
    /\ \E p \in inDriver :
          /\ inDriver' = inDriver \ {p}
          /\ readyPages' = readyPages \cup {p}
    /\ UNCHANGED <<mpFree, heldPages, dmaOn, isDataOn, RocFifoSize, pbPc,
                   newPage, isActive, nPushed, pbResult, nMemoryLow, nCalls,
                   pbTaken, pbAccepted, pbReleases>>
    /\ refillUnchanged

\* lines 439-459 and 666-669: between two prepareBlocks the thread pops a
\* superpage in getNextBlock; its page is given downstream as a block, or
\* released when no block is made of it
PopSuperpage ==
    /\ pbPc = "idle"
    /\ \E p \in readyPages :
          /\ readyPages' = readyPages \ {p}
          /\ \/ heldPages' = heldPages \cup {p} /\ UNCHANGED mpFree
             \/ mpFree' = mpFree \cup {p} /\ UNCHANGED heldPages
    /\ UNCHANGED <<inDriver, dmaOn, isDataOn, RocFifoSize, pbPc, newPage,
                   isActive, nPushed, pbResult, nMemoryLow, nCalls, pbTaken,
                   pbAccepted, pbReleases>>
    /\ refillUnchanged

\* the last reference to a block is dropped downstream, its page goes back
\* to the pool
ReleaseDownstream ==
    /\ \E p \in heldPages :
          /\ heldPages' = heldPages \ {p}
          /\ mpFree' = mpFree \cup {p}
    /\ UNCHANGED <<inDriver, readyPages, dmaOn, isDataOn, RocFifoSize, pbPc,
                   newPage, isActive, nPushed, pbResult, nMemoryLow, nCalls,
                   pbTaken, pbAccepted, pbReleases>>
    /\ refillUnchanged

NextRefill ==
    \/ setDataOn
    \/ setDataOff
    \/ PbEnter
    \/ PbGetPage
    \/ PbPush
    \/ PbReturn
    \/ DriverFills
    \/ PopSuperpage
    \/ ReleaseDownstream

\* the equipment next to an aggregator that is constructed and left alone
InitRefill == Init /\ ~disableSlicing /\ cfgSliceTimeout = 0

SpecRefill == InitRefill /\ [][NextRefill]_vars

(***************************************************************************)
(* ReadoutEquipmentRORC::getNextBlock.  A superpage is the record of what  *)
(* the driver hands over: isReady(), whether the pool makes a block of its *)
(* page, and the RDHs of the page, each with the verdict of validateRdh,   *)
(* its fields, and whether its offsetNextPacket leads to the next RDH (1)  *)
(* or is zero (0).                                                         *)
(***************************************************************************)
\* lines 292-295: the software clock is used when the RDH is not
usingSoftwareClock == ~cfgRdhUseFirstInPageEnabled

\* uint8_t values (the packetCounter of an RDH), scaled
PacketCounterModulus == 2 ^ PacketCounterBits
PacketCounters == 0 .. PacketCounterModulus - 1

\* a value as uint32_t
U32(x) == (x + OrbitModulus) % OrbitModulus

\* the members getNextBlock reads and writes
ReadState ==
    [statsNumberOfPages |-> statsNumberOfPages,
     currentTimeframe |-> currentTimeframe,
     currentTimeframeHbOrbitBegin |-> currentTimeframeHbOrbitBegin,
     firstTimeframeHbOrbitBegin |-> firstTimeframeHbOrbitBegin,
     statsRdhCheckOk |-> statsRdhCheckOk,
     statsRdhCheckErr |-> statsRdhCheckErr,
     statsRdhCheckStreamErr |-> statsRdhCheckStreamErr,
     RdhLastPacketCounter |-> RdhLastPacketCounter,
     nDropWarnings |-> nDropWarnings,
     statsNumberOfPagesLost |-> statsNumberOfPagesLost,
     statsNumberOfPagesEmpty |-> statsNumberOfPagesEmpty]

\* lines 504-506: the page opens a timeframe
OpensTimeframe(r, hbOrbit) ==
    \/ r.statsNumberOfPages = 1
    \/ hbOrbit >= U32(r.currentTimeframeHbOrbitBegin + timeframePeriodOrbits)

\* lines 507-526: the timeframe opened by a page of orbit hbOrbit
NewTimeframe(r, hbOrbit) ==
    LET first == IF r.statsNumberOfPages = 1 THEN hbOrbit
                 ELSE r.firstTimeframeHbOrbitBegin
        begin == U32(hbOrbit - (U32(hbOrbit - first) % timeframePeriodOrbits))
        newTimeframe == U32(1 + (U32(begin - first) \div timeframePeriodOrbits))
    IN [r EXCEPT !.firstTimeframeHbOrbitBegin = first,
                 !.currentTimeframeHbOrbitBegin = begin,
                 !.currentTimeframe = newTimeframe]

\* lines 458-539: the page is counted and its header is filled.
\* [r |-> the members afterwards, header |-> the tags of the block,
\*  linkId, hbOrbit |-> the locals the check reads, opened |-> lines 507-526 ran]
Decorate(r, sp, clockTimeout) ==
    LET r1 == [r EXCEPT !.statsNumberOfPages = @ + 1]
        r2 == IF usingSoftwareClock /\ clockTimeout
              THEN [r1 EXCEPT !.currentTimeframe = @ + 1]
              ELSE r1
        h == sp.rdhs[1]
        valid == (cfgRdhUseFirstInPageEnabled \/ cfgRdhCheckEnabled) /\ h.ok
        equipmentId == IF valid /\ h.cruId # 0 THEN h.cruId
                       ELSE undefinedEquipmentId
        linkId == IF valid THEN h.linkId ELSE undefinedLinkId
        hbOrbit == IF valid THEN h.hbOrbit ELSE U32(-1)
        opened == valid /\ OpensTimeframe(r2, hbOrbit)
        r3 == IF opened THEN NewTimeframe(r2, hbOrbit) ELSE r2
    IN [r |-> r3,
        header |-> [equipmentId |-> equipmentId, linkId |-> linkId,
                    timeframeId |-> r3.currentTimeframe],
        linkId |-> linkId, hbOrbit |-> hbOrbit, valid |-> valid,
        opened |-> opened]

\* a check that goes on to the next RDH after an RDH that did not validate
RECURSIVE CheckRdh_GoesOnAfterError(_, _, _, _, _)
CheckRdh_GoesOnAfterError(r, rdhs, n, linkId, hbOrbit) ==
    IF n > Len(rdhs) THEN r
    ELSE LET h == rdhs[n]
             r1 == IF h.ok THEN [r EXCEPT !.statsRdhCheckOk = @ + 1]
                   ELSE [r EXCEPT !.statsRdhCheckErr = @ + 1]
         IN IF h.offsetNextPacket = 0 THEN r1
            ELSE CheckRdh_GoesOnAfterError(r1, rdhs, n + 1, linkId, hbOrbit)

\* lines 561-655: the loop over the RDHs of the page, from the n-th on
RECURSIVE CheckRdh(_, _, _, _, _)
CheckRdh(r, rdhs, n, linkId, hbOrbit) ==
    IF n > Len(rdhs) THEN r
    ELSE LET h == rdhs[n]
             r1 == [r EXCEPT !.statsRdhCheckOk = @ + 1]
             last == r.RdhLastPacketCounter[linkId]
             jump == /\ h.packetCounter # last
                     /\ h.packetCounter # (last + 1) % PacketCounterModulus
             r2 == [r1 EXCEPT !.RdhLastPacketCounter[linkId] = h.packetCounter,
                              !.nDropWarnings = IF jump THEN @ + 1 ELSE @]
         IN IF ~h.ok
            THEN [r EXCEPT !.statsRdhCheckErr = @ + 1]
            ELSE IF linkId # h.linkId
            THEN [r1 EXCEPT !.statsRdhCheckStreamErr = @ + 1]
            ELSE IF hbOrbit >= U32(r.currentTimeframeHbOrbitBegin
                                   + timeframePeriodOrbits)
            THEN [r1 EXCEPT !.statsRdhCheckStreamErr = @ + 1]
            ELSE IF h.offsetNextPacket = 0 THEN r2
            ELSE CheckRdh(r2, rdhs, n + 1, linkId, hbOrbit)

\* a superpage that is counted as empty whether it is ready or not
Discard_AlwaysEmpty(r, sp) ==
    [r EXCEPT !.statsNumberOfPagesEmpty = @ + 1]

\* lines 442-449 and 657-664: the count of a superpage no block is made of,
\* lost when it is ready (the page is not valid, or no block could be
\* wrapped around it), empty when it is not ready
Discard(r, sp) ==
    IF sp.ready THEN [r EXCEPT !.statsNumberOfPagesLost = @ + 1]
    ELSE [r EXCEPT !.statsNumberOfPagesEmpty = @ + 1]

\* the variables of the aggregator and of the refill, which getNextBlock
\* leaves alone
readoutUnchanged ==
    UNCHANGED <<cfgVars, aggVars, cbVars, histVars, refillVars, threadVars>>

\* lines 428-672: getNextBlock pops the superpage sp; isTimeout() of the
\* timeframe clock answers clockTimeout
getNextBlock(sp, clockTimeout) ==
    /\ lastRead.n < MaxReadout
    /\ LET usable == sp.ready /\ sp.pageValid
           d == Decorate(ReadState, sp, clockTimeout)
           r == IF ~usable THEN Discard(ReadState, sp)
                ELSE IF cfgRdhCheckEnabled
                THEN CheckRdh(d.r, sp.rdhs, 1, d.linkId, d.hbOrbit)
                ELSE d.r
           orbit == IF usable /\ d.valid THEN d.hbOrbit ELSE lastRead.lastOrbit
       IN /\ statsNumberOfPages' = r.statsNumberOfPages
          /\ currentTimeframe' = r.currentTimeframe
          /\ currentTimeframeHbOrbitBegin' = r.currentTimeframeHbOrbitBegin
          /\ firstTimeframeHbOrbitBegin' = r.firstTimeframeHbOrbitBegin
          /\ statsRdhCheckOk' = r.statsRdhCheckOk
          /\ statsRdhCheckErr' = r.statsRdhCheckErr
          /\ statsRdhCheckStreamErr' = r.statsRdhCheckStreamErr
          /\ RdhLastPacketCounter' = r.RdhLastPacketCounter
          /\ nDropWarnings' = r.nDropWarnings
          /\ statsNumberOfPagesLost' = r.statsNumberOfPagesLost
          /\ statsNumberOfPagesEmpty' = r.statsNumberOfPagesEmpty
          /\ lastRead' = [sp |-> sp,
                          block |-> IF usable THEN <<d.header>> ELSE <<>>,
                          released |-> ~usable,
                          hbOrbit |-> IF usable THEN d.hbOrbit ELSE 0,
                          opened |-> usable /\ d.opened,
                          n |-> lastRead.n + 1,
                          lastOrbit |-> orbit,
                          lastTf |-> IF lastRead.block = <<>>
                                     THEN lastRead.lastTf
                                     ELSE lastRead.block[1].timeframeId]
          /\ orbitsInOrder' = (orbitsInOrder /\ orbit >= lastRead.lastOrbit)
    /\ UNCHANGED <<cfgRdhUseFirstInPageEnabled, cfgRdhCheckEnabled,
                   timeframePeriodOrbits>>
    /\ readoutUnchanged

\* the timeframe periods the equipment is configured with
Periods == {1, 2, 3}

\* the equipment is constructed with any of the two rdh options and a period
InitReadout ==
    /\ AggregatorInit /\ ~disableSlicing /\ cfgSliceTimeout = 0
    /\ RefillInit
    /\ cfgRdhUseFirstInPageEnabled \in BOOLEAN
    /\ cfgRdhCheckEnabled \in BOOLEAN
    /\ timeframePeriodOrbits \in Periods
    /\ initCounters

\* an RDH
Rdh(ok, cruId, linkId, hbOrbit, packetCounter, offsetNextPacket) ==
    [ok |-> ok, cruId |-> cruId, linkId |-> linkId, hbOrbit |-> hbOrbit,
     packetCounter |-> packetCounter, offsetNextPacket |-> offsetNextPacket]

\* a superpage
Superpage(ready, pageValid, rdhs) ==
    [ready |-> ready, pageValid |-> pageValid, rdhs |-> rdhs]

\* the superpages of pages of one RDH, of any orbit, and the two superpages
\* no block is made of
OneRdhPages ==
    {Superpage(TRUE, TRUE, <<Rdh(ok, cruId, 0, hbOrbit, 0, 0)>>) :
        ok \in BOOLEAN, cruId \in {0, 1}, hbOrbit \in Orbits}
    \cup {Superpage(FALSE, TRUE, <<Rdh(TRUE, 1, 0, 0, 0, 0)>>),
          Superpage(TRUE, FALSE, <<Rdh(TRUE, 1, 0, 0, 0, 0)>>)}

NextTimeframe ==
    \E sp \in OneRdhPages : \E clockTimeout \in BOOLEAN :
        getNextBlock(sp, clockTimeout)

\* the equipment reads pages of one RDH
SpecTimeframe == InitReadout /\ [][NextTimeframe]_vars

\* the orbits of the pages the check is run on: the first and the last one
CheckedOrbits == {0, OrbitModulus - 1}

\* the superpages of pages of two RDHs of one orbit: the first RDH, of link
\* 0, leads to the second one or is the last of the page (offsetNextPacket
\* 0); and the two superpages no block is made of
TwoRdhPages ==
    {Superpage(TRUE, TRUE,
               <<Rdh(ok1, 1, 0, hbOrbit, 0, offsetNextPacket),
                 Rdh(ok2, 1, linkId, hbOrbit, packetCounter, 0)>>) :
        ok1 \in BOOLEAN, ok2 \in BOOLEAN, linkId \in RdhLinks,
        hbOrbit \in CheckedOrbits, packetCounter \in {0, 1},
        offsetNextPacket \in {0, 1}}
    \cup {Superpage(FALSE, TRUE, <<Rdh(TRUE, 1, 0, 0, 0, 0)>>),
          Superpage(TRUE, FALSE, <<Rdh(TRUE, 1, 0, 0, 0, 0)>>)}

NextRdhCheck ==
    \E sp \in TwoRdhPages : \E clockTimeout \in BOOLEAN :
        getNextBlock(sp, clockTimeout)

\* the equipment is constructed with the default timeframe period
InitRdhCheck == InitReadout /\ timeframePeriodOrbits = defaultTFperiod

\* the equipment reads pages of two RDHs
SpecRdhCheck == InitRdhCheck /\ [][NextRdhCheck]_vars

\* the superpages of pages of two valid RDHs of link 0, each of any orbit,
\* the first RDH leading to the second one
TwoOrbitPages ==
    {Superpage(TRUE, TRUE,
               <<Rdh(TRUE, 1, 0, hb1, 0, 1), Rdh(TRUE, 1, 0, hb2, 1, 0)>>) :
        hb1 \in Orbits, hb2 \in Orbits}

NextOrbitCheck ==
    \E sp \in TwoOrbitPages : \E clockTimeout \in BOOLEAN :
        getNextBlock(sp, clockTimeout)

\* the equipment is constructed with rdhCheckEnabled set and the default
\* timeframe period
InitOrbitCheck ==
    InitReadout /\ cfgRdhCheckEnabled /\ timeframePeriodOrbits = defaultTFperiod

\* the equipment checks pages whose RDHs have orbits of their own
SpecOrbitCheck == InitOrbitCheck /\ [][NextOrbitCheck]_vars

\* the superpages of pages of one valid RDH of orbit 0, of any link and any
\* packetCounter
CountedPages ==
    {Superpage(TRUE, TRUE, <<Rdh(TRUE, 1, linkId, 0, packetCounter, 0)>>) :
        linkId \in RdhLinks, packetCounter \in PacketCounters}

NextPacketCounter ==
    \E sp \in CountedPages : \E clockTimeout \in BOOLEAN :
        getNextBlock(sp, clockTimeout)

\* the equipment checks the packetCounter of pages of one RDH
SpecPacketCounter == InitOrbitCheck /\ [][NextPacketCounter]_vars

\* the superpages of pages of one RDH of orbit 0: ready or not, of a valid
\* page or not, with an RDH that validates or not
HarvestedPages ==
    {Superpage(ready, pageValid, <<Rdh(ok, 1, 0, 0, 0, 0)>>) :
        ready \in BOOLEAN, pageValid \in BOOLEAN, ok \in BOOLEAN}

NextHarvest ==
    \E sp \in HarvestedPages : \E clockTimeout \in BOOLEAN :
        getNextBlock(sp, clockTimeout)

\* the equipment reads superpages of every kind
SpecHarvest == InitReadout /\ [][NextHarvest]_vars

(***************************************************************************)
(* The equipment in front of the aggregator: the pages getNextBlock        *)
(* returns are the pages of input 0.                                       *)
(***************************************************************************)
\* the test validateRdh makes of the link id: linkId <= MAX_LINKS or 0xFF
validateRdhLinkId(linkId) == linkId <= maxLinks \/ linkId = 255

\* the link ids of the RDHs that pass validateRdh
ValidatedLinks == {linkId \in 0 .. 255 : validateRdhLinkId(linkId)}

\* the superpages of pages of one RDH of the CRU 1 that passes validateRdh,
\* of any link it admits, in one of two timeframes
ValidatedPages ==
    {Superpage(TRUE, TRUE, <<Rdh(TRUE, 1, linkId, hbOrbit, 0, 0)>>) :
        linkId \in ValidatedLinks, hbOrbit \in {0, defaultTFperiod}}

\* the equipment thread calls getNextBlock once the page before is queued
ReadPage ==
    /\ nPages = statsNumberOfPages
    /\ \E sp \in ValidatedPages : \E clockTimeout \in BOOLEAN :
         getNextBlock(sp, clockTimeout)

\* the equipment thread queues the page getNextBlock returned, with the tags
\* of the decoration, for the aggregator
Forward ==
    /\ lastRead.block # <<>>
    /\ nPages < statsNumberOfPages
    /\ Produce(0, lastRead.block[1].equipmentId, lastRead.block[1].linkId,
               lastRead.block[1].timeframeId)

\* an equipment in header mode, without the check of the RDHs, in front of
\* an aggregator that slices without timeout
InitProducer ==
    /\ AggregatorStarted({0}) /\ ~disableSlicing
    /\ RefillInit
    /\ cfgRdhUseFirstInPageEnabled = TRUE
    /\ cfgRdhCheckEnabled = FALSE
    /\ timeframePeriodOrbits = defaultTFperiod
    /\ initCounters

NextProducer ==
    \/ ReadPage
    \/ Forward
    \/ Consume
    \/ Flush
    \/ executeCallback

SpecProducer == InitProducer /\ [][NextProducer]_vars

(***************************************************************************)
(* Properties                                                              *)
(***************************************************************************)
\* the DataSets pushed to the output so far, in order
EmittedSets == [n \in 1 .. Len(emittedLog) |-> emittedLog[n].set]

\* the DataSets a fifo of pointers holds
SetsIn(q) == [n \in 1 .. Len(q) |-> Deref(q[n])]

\* all pages of DataSet ds carry the same timeframe, equipment and link id
SameTags(ds) ==
    \A m, n \in 1 .. Len(ds) :
        /\ ds[m].timeframeId = ds[n].timeframeId
        /\ ds[m].equipmentId = ds[n].equipmentId
        /\ ds[m].linkId = ds[n].linkId

\* the open set of PartialSlice s, kept under key k, agrees with s.tfId and k
OpenSetAgrees(k, s) ==
    IsNull(s.currentDataSet) \/
        \A n \in 1 .. Len(Deref(s.currentDataSet)) :
            LET b == Deref(s.currentDataSet)[n]
            IN /\ b.timeframeId = s.tfId
               /\ b.equipmentId = k[1]
               /\ b.linkId = k[2]

\* C1: in slicing mode every DataSet pushed to the output, and every DataSet
\* waiting in a slicer's completed fifo, holds pages of one timeframe id, one
\* equipment id and one link id (the sentinel link id included), and every
\* open set holds pages of its key whose timeframe id is the recorded tfId
C1_DataSetsShareTags ==
    ~disableSlicing =>
        /\ \A n \in 1 .. Len(emittedLog) : SameTags(emittedLog[n].set)
        /\ \A i \in Inputs :
              /\ \A n \in 1 .. Len(slicers[i].slices) :
                     SameTags(Deref(slicers[i].slices[n]))
              /\ \A k \in SourceIds :
                     OpenSetAgrees(k, slicers[i].partialSlices[k])

\* C1 witness: a slicer grouped two pages into one DataSet, which was pushed
\* to the output
C1_Witness ==
    /\ ~disableSlicing
    /\ \E n \in 1 .. Len(emittedLog) : Len(emittedLog[n].set) >= 2

\* C2: the output fifo never holds more than its capacity and no DataSet given
\* to output->push is lost: the DataSets pushed are, in order, those the
\* consumer has popped followed by those the output fifo holds
C2_NoPushOnFullOutput ==
    /\ Len(output) <= outputSize
    /\ EmittedSets = SetsIn(delivered) \o SetsIn(output)

\* C2 witness: the output is full, the callback returned Idle and left what
\* it had to push where it was: a completed DataSet in a slicer or, in
\* passthrough mode, a page in an input fifo
C2_Witness ==
    /\ isFull(output, outputSize)
    /\ result = "Idle"
    /\ \E i \in Inputs :
          \/ ~isEmpty(slicers[i].slices)
          \/ (disableSlicing /\ ~isEmpty(inputs[i]))

\* the identities of the pages of the DataSets q[n..] points to, in order
RECURSIVE IdsIn(_, _)
IdsIn(q, n) ==
    IF n > Len(q) THEN <<>>
    ELSE (IF IsNull(q[n]) THEN <<>> ELSE IdsOf(Deref(q[n]))) \o IdsIn(q, n + 1)

\* the open sets of slicer sl, as a sequence of pointers
RECURSIVE OpenSetsOf(_, _)
OpenSetsOf(sl, K) ==
    IF K = {} THEN <<>>
    ELSE LET k == CHOOSE x \in K : TRUE
         IN <<sl.partialSlices[k].currentDataSet>> \o OpenSetsOf(sl, K \ {k})

\* the identities of the pages held in slicer sl: open sets, completed fifo
IdsInSlicerOpen(sl) == IdsIn(OpenSetsOf(sl, SourceIds), 1)
IdsInSlicerCompleted(sl) == IdsIn(sl.slices, 1)

\* the identities of the pages held in open sets and in completed fifos
RECURSIVE IdsInSlicers(_)
IdsInSlicers(I) ==
    IF I = {} THEN <<>>
    ELSE LET i == CHOOSE x \in I : TRUE
         IN IdsInSlicerOpen(slicers[i]) \o IdsInSlicerCompleted(slicers[i])
                \o IdsInSlicers(I \ {i})

\* one entry for every position at which a page is held: an open set, a
\* completed fifo, the output fifo, the consumer
HeldIds ==
    IdsInSlicers(Inputs) \o IdsIn(output, 1) \o IdsIn(delivered, 1)

\* the elements of a sequence, and whether it holds none of them twice
Range(q) == {q[n] : n \in 1 .. Len(q)}
NoRepeat(q) == Cardinality(Range(q)) = Len(q)

\* the identities of the pages popped from the inputs
PoppedIds == UNION {{poppedLog[i][n].id : n \in 1 .. Len(poppedLog[i])} :
                        i \in Inputs}

\* no page is in two pushed DataSets or twice in one
NoPagePushedTwice ==
    NoRepeat(IdsIn([n \in 1 .. Len(emittedLog) |-> Ref(emittedLog[n].set)], 1))

TaggedSources == {<<tag[1], tag[2]>> : tag \in PageTags}

\* the pages of q whose source is k
OfSource(q, k) == LET Test(b) == <<b.equipmentId, b.linkId>> = k
                  IN SelectSeq(q, Test)

\* the pages of the DataSets log[n..] that were taken from input i, in order
RECURSIVE PagesFrom(_, _, _)
PagesFrom(log, i, n) ==
    IF n > Len(log) THEN <<>>
    ELSE (IF log[n].input = i THEN log[n].set ELSE <<>>)
             \o PagesFrom(log, i, n + 1)

IsPrefix(a, b) == Len(a) <= Len(b) /\ SubSeq(b, 1, Len(a)) = a

\* C4: for every input and every source, the pages of the DataSets pushed to
\* the output, concatenated in the order of the pushes, are the first pages
\* of that source in the order they were popped from the input fifo
C4_PerSourceOrder ==
    \A i \in Inputs : \A k \in TaggedSources :
        IsPrefix(OfSource(PagesFrom(emittedLog, i, 1), k),
                 OfSource(poppedLog[i], k))

\* C4 witness: two DataSets of one source were pushed, one of them closed by
\* timeout or by flush
C4_Witness ==
    \E m, n \in 1 .. Len(emittedLog) :
        /\ m < n
        /\ emittedLog[m].input = emittedLog[n].input
        /\ emittedLog[m].set # <<>> /\ emittedLog[n].set # <<>>
        /\ SourceOf(emittedLog[m].set[1]) = SourceOf(emittedLog[n].set[1])
        /\ \E c \in closedBy : /\ c.how \in {"timeout", "flush"}
                              /\ c.set \in {IdsOf(emittedLog[m].set),
                                            IdsOf(emittedLog[n].set)}

\* C6: no DataSet is empty, be it an open set, in a completed fifo, in the
\* output fifo, pushed to the output or popped by the consumer
C6_NoEmptyDataSet ==
    /\ \A i \in Inputs :
          /\ \A k \in SourceIds :
                LET p == slicers[i].partialSlices[k].currentDataSet
                IN IsNull(p) \/ Len(Deref(p)) >= 1
          /\ \A n \in 1 .. Len(slicers[i].slices) :
                /\ ~IsNull(slicers[i].slices[n])
                /\ Len(Deref(slicers[i].slices[n])) >= 1
    /\ \A n \in 1 .. Len(output) :
          ~IsNull(output[n]) /\ Len(Deref(output[n])) >= 1
    /\ \A n \in 1 .. Len(emittedLog) : Len(emittedLog[n].set) >= 1

\* C6 witness: a DataSet was pushed to the output while a slicer holds an
\* open set
C6_Witness ==
    /\ emittedLog # <<>>
    /\ \E i \in Inputs : OpenKeys(slicers[i]) # {}

\* the DataSets pushed to the output for source k of input i, in order
SetsOfSource(i, k) ==
    LET Test(e) == /\ e.input = i
                   /\ Len(e.set) >= 1
                   /\ <<e.set[1].equipmentId, e.set[1].linkId>> = k
    IN SelectSeq(emittedLog, Test)

\* the timeframe id of a DataSet
TfOf(ds) == ds[1].timeframeId

\* the defined timeframe ids of the pages q never decrease
DefinedTfsNonDecreasing(q) ==
    \A m, n \in 1 .. Len(q) :
        (/\ m < n
         /\ q[m].timeframeId # undefinedTimeframeId
         /\ q[n].timeframeId # undefinedTimeframeId)
            => q[m].timeframeId <= q[n].timeframeId

\* the way DataSet ds was closed
ClosedHow(ds) == {c.how : c \in {d \in closedBy : d.set = IdsOf(ds)}}

fed == poppedLog[0]

\* the slicer holds nothing
Drained(sl) == OpenKeys(sl) = {} /\ sl.slices = <<>>

\* one page at least was fed, and all pages fed are of one source and of one
\* defined timeframe
OneTimeframeFeed ==
    /\ fed # <<>>
    /\ ~LinkIdIsWrong(fed[1].linkId)
    /\ fed[1].timeframeId # undefinedTimeframeId
    /\ \A n \in 1 .. Len(fed) :
          /\ fed[n].equipmentId = fed[1].equipmentId
          /\ fed[n].linkId = fed[1].linkId
          /\ fed[n].timeframeId = fed[1].timeframeId

\* C7: after K >= 1 pages of one source and one defined timeframe were fed
\* and nothing else, with no timeout, getSlice(false) returns nothing and
\* getSlice(true) returns one DataSet made of the K pages in feed order and
\* leaves the slicer with nothing more to return
C7_RoundTrip ==
    OneTimeframeFeed =>
        IF emittedLog = <<>>
        THEN /\ \A r \in getSliceResults(slicers[0], FALSE) : IsNull(r.ret)
             /\ \A r \in getSliceResults(slicers[0], TRUE) :
                   /\ r.ret = Ref(fed)
                   /\ Drained(r.slicer)
        ELSE /\ doFlush
             /\ EmittedSets = <<fed>>
             /\ Drained(slicers[0])
             /\ \A r \in getSliceResults(slicers[0], TRUE) : IsNull(r.ret)

\* C7 witness: four pages tagged with the sentinel link id and one timeframe
\* were fed and the flush retrieved them as one DataSet
C7_Witness ==
    /\ OneTimeframeFeed
    /\ Len(fed) = 4
    /\ fed[1].linkId = undefinedLinkId
    /\ doFlush
    /\ EmittedSets = <<fed>>

\* the timeframe id of the pages of the open set of PartialSlice s
OpenTfId(s) == Deref(s.currentDataSet)[1].timeframeId

\* appendBlock applied to page b, of a source of slicer sl that has an open
\* set, follows the boundary rule
FollowsBoundaryRule(sl, b) ==
    LET k == <<b.equipmentId, b.linkId>>
        s == sl.partialSlices[k]
        after == appendBlock(sl, b, timeNow).slicer
    IN IF b.timeframeId # OpenTfId(s) \/ b.timeframeId = undefinedTimeframeId
       THEN /\ after.slices = Append(sl.slices, s.currentDataSet)
            /\ after.partialSlices[k].currentDataSet = Ref(<<b>>)
       ELSE /\ after.slices = sl.slices
            /\ after.partialSlices[k].currentDataSet =
                   Ref(Append(Deref(s.currentDataSet), b))

\* the DataSets slicer sl holds: completed fifo and open sets
SetsHeld(sl) ==
    Range(SetsIn(sl.slices)) \cup
        {Deref(sl.partialSlices[k].currentDataSet) : k \in OpenKeys(sl)}

\* the timeframe ids of the pages of q
TfIdsOf(q) == [n \in 1 .. Len(q) |-> q[n].timeframeId]

\* the feed of the example: five pages of one source, of timeframes 7, 7, 8,
\* 8 and the sentinel
ExampleFeed ==
    /\ TfIdsOf(fed) = <<7, 7, 8, 8, undefinedTimeframeId>>
    /\ \A n \in 1 .. Len(fed) : <<fed[n].equipmentId, fed[n].linkId>> = <<1, 0>>

\* the DataSets the example is to yield
ExampleSets == <<SubSeq(fed, 1, 2), SubSeq(fed, 3, 4), SubSeq(fed, 5, 5)>>

\* C8: a page that arrives for a source with an open set closes that set onto
\* the completed fifo and starts a new open set exactly when its timeframe id
\* differs from that of the open set or is the sentinel, and is appended to
\* the open set otherwise; the feed of timeframes [7,7,8,8,sentinel] of one
\* source yields the DataSets of pages [1,2], [3,4] and, after the flush, [5];
\* every DataSet that holds a page of the sentinel timeframe is a singleton
C8_BoundaryRule ==
    /\ \A tag \in FeedTags :
          LET b == Page(nPages + 1, tag[1], tag[2], tag[3])
          IN (/\ ~LinkIdIsWrong(b.linkId)
              /\ <<b.equipmentId, b.linkId>> \in OpenKeys(slicers[0]))
                 => FollowsBoundaryRule(slicers[0], b)
    /\ ExampleFeed =>
          /\ IsPrefix(EmittedSets, ExampleSets)
          /\ ~doFlush => Len(EmittedSets) <= 2
          /\ doFlush /\ Drained(slicers[0]) => EmittedSets = ExampleSets
    /\ \A ds \in SetsHeld(slicers[0]) \cup Range(EmittedSets) :
          (\E n \in 1 .. Len(ds) : ds[n].timeframeId = undefinedTimeframeId)
              => Len(ds) = 1

\* C8 witness: the feed of the example was flushed and retrieved as three
\* DataSets
C8_Witness ==
    /\ ExampleFeed
    /\ doFlush
    /\ Drained(slicers[0])
    /\ Len(emittedLog) = 3

\* the identities of the pages of the DataSets the slicer holds or has handed
\* out, one entry for every DataSet a page is in
IdsClosedOrOpen ==
    IdsInSlicerOpen(slicers[0]) \o IdsInSlicerCompleted(slicers[0])
        \o IdsIn([n \in 1 .. Len(emittedLog) |-> Ref(emittedLog[n].set)], 1)

\* C10: completeSliceOnTimeout(t) called again with the same t, with no
\* appendBlock in between, returns 0 and leaves the completed fifo and the
\* partial slices as they are, in whatever order the calls visit the map; no
\* open set is closed twice
C10_TimeoutIdempotence ==
    /\ lastCall.again >= 0 => lastCall.ret = 0
    /\ \A t \in Timestamps :
          \A first \in completeSliceOnTimeoutResults(slicers[0], t) :
              \A second \in completeSliceOnTimeoutResults(first.slicer, t) :
                  /\ second.ret = 0
                  /\ second.slicer = first.slicer
    /\ NoRepeat(IdsClosedOrOpen)

\* C10 witness: a call of completeSliceOnTimeout closed the open sets of two
\* sources and the call that followed it, with the same timestamp, returned 0
C10_Witness ==
    /\ lastCall.op = "completeSliceOnTimeout"
    /\ lastCall.again = 2
    /\ lastCall.ret = 0
    /\ Len(slicers[0].slices) + Len(emittedLog) = 2

(***************************************************************************)
(* Properties of the timeout of the aggregator                             *)
(***************************************************************************)
\* the open set of source k of slicer i was last updated sliceTimeout or
\* more before time t
Expired(i, k, t) ==
    LET s == slicers[i].partialSlices[k]
    IN ~IsNull(s.currentDataSet) /\ s.lastUpdateTime <= t - cfgSliceTimeout

\* no page of source k waits in input i
NothingPending(i, k) ==
    \A n \in 1 .. Len(inputs[i]) :
        <<inputs[i][n].equipmentId, inputs[i][n].linkId>> # k

\* one visit of input i can hand out all the DataSets slicer i may hold
\* after its timeout step
WithinOneVisit(i) ==
    Len(slicers[i].slices) + Cardinality(OpenKeys(slicers[i])) <= maxLoop

\* the step is a callback of an aggregator that slices with a timeout, run
\* with room in the output and leaving room in the output
TimeoutCallbackWithRoom ==
    /\ executeCallback
    /\ ~disableSlicing
    /\ cfgSliceTimeout > 0
    /\ ~isFull(output, outputSize)
    /\ ~isFull(output', outputSize)
    /\ result' # "Error"

\* the identities of the pages popped in the step
PoppedInStep ==
    UNION {{poppedLog'[i][n].id :
                n \in Len(poppedLog[i]) + 1 .. Len(poppedLog'[i])} :
           i \in Inputs}

\* C9, as stated: a callback run with room in the output delivers every open
\* set that was last updated sliceTimeout or more before and gets no more
\* page; and the sets it closes by timeout are open sets last updated
\* sliceTimeout or more before, none of which got a page in this callback
C9_AsStated ==
    [][TimeoutCallbackWithRoom =>
         /\ \A i \in Inputs : \A k \in SourceIds :
               (/\ Expired(i, k, timeNow)
                /\ NothingPending(i, k)
                /\ WithinOneVisit(i))
                   => \E n \in Len(emittedLog) + 1 .. Len(emittedLog') :
                         /\ emittedLog'[n].input = i
                         /\ emittedLog'[n].set =
                               Deref(slicers[i].partialSlices[k].currentDataSet)
         /\ \A c \in closedBy' \ closedBy :
               c.how = "timeout" =>
                  /\ Range(c.set) \cap PoppedInStep = {}
                  /\ \E i \in Inputs : \E k \in SourceIds :
                        /\ Expired(i, k, timeNow)
                        /\ c.set = IdsOf(Deref(
                               slicers[i].partialSlices[k].currentDataSet))
      ]_vars

(***************************************************************************)
(* Properties of the flush                                                 *)
(***************************************************************************)
\* the step is the worker's clearing of doFlush (line 174)
WorkerClearsDoFlush == doFlush /\ ~doFlush' /\ pc' = "idle" /\ result' = "Idle"

\* C11, as stated: whenever flush() sets doFlush, also in the middle of a
\* callback, every page held in a slicer is pushed to the output before the
\* worker clears doFlush: when the worker clears doFlush no slicer holds an
\* open set or a completed DataSet
C11_AsStated ==
    [][WorkerClearsDoFlush => \A i \in Inputs : Drained(slicers'[i])]_vars

(***************************************************************************)
(* Properties of stop                                                      *)
(***************************************************************************)
\* the number of times DataSet ds was pushed to the output
TimesEmitted(log, ds) == Cardinality({n \in 1 .. Len(log) : log[n].set = ds})

\* C12, as stated: when stop() runs, every open set a slicer holds is emitted
\* to the output as a DataSet exactly once
C12_AsStated ==
    [][pc # "stopped" /\ pc' = "stopped" =>
         \A i \in Inputs : \A k \in OpenKeys(slicers[i]) :
             TimesEmitted(emittedLog',
                          Deref(slicers[i].partialSlices[k].currentDataSet)) = 1
      ]_vars

\* C13, as stated: after stop(wait=true) every input fifo and the output fifo
\* are empty and no slicer holds a page, in an open set or in its completed
\* fifo
C13_AsStated ==
    pc = "stopped" =>
        /\ \A i \in Inputs : isEmpty(inputs[i])
        /\ isEmpty(output)
        /\ \A i \in Inputs : Drained(slicers[i])

(***************************************************************************)
(* Properties of the scan of the inputs                                    *)
(***************************************************************************)
\* the last callback pushed a DataSet of input i
Served(i) == \E n \in 1 .. Len(emittedLog) : emittedLog[n].input = i

\* C14, as stated: with inputs that always have a page to deliver and a
\* consumer that keeps freeing output slots, every input has an item pushed
\* to the output again and again
C14_AsStated == \A i \in Inputs : []<>Served(i)

\* slicer sl after appendBlock of each page of the sequence pages
RECURSIVE Fed(_, _)
Fed(sl, pages) ==
    IF pages = <<>> THEN sl
    ELSE Fed(appendBlock(sl, Head(pages), 0).slicer, Tail(pages))

\* number of completed DataSets of input i once its first n pages are appended
DeliverableAfter(i, n) == Len(Fed(slicers[i], SubSeq(inputs[i], 1, n)).slices)

\* input i is saturated: it holds two visits' worth of pages and each page
\* popped gives one more DataSet to deliver
Saturated(i) ==
    /\ Len(inputs[i]) >= 2 * maxLoop
    /\ \A n \in 1 .. 2 * maxLoop : DeliverableAfter(i, n) >= n

\* number of DataSets of input i among log[a] .. log[b]
FromInput(log, a, b, i) == Cardinality({n \in a .. b : log[n].input = i})

\* in every window of N consecutive DataSets of log each input has 40 % to 60 %
FairWindows(log, N) ==
    \A a \in 1 .. Len(log) - N + 1 : \A i \in Inputs :
        /\ 10 * FromInput(log, a, a + N - 1, i) >= 4 * N
        /\ 10 * FromInput(log, a, a + N - 1, i) <= 6 * N

\* a callback that starts with both inputs saturated and room in the output
\* for a window of 2*maxLoop DataSets
SaturatedCallback ==
    /\ ~disableSlicing
    /\ pc = "idle"
    /\ \A i \in Inputs : Saturated(i)
    /\ outputSize - Len(output) >= 2 * maxLoop
    /\ \E i \in Inputs : Len(inputs'[i]) < Len(inputs[i])

\* C15, as stated: with two saturated inputs in slicing mode, in every window
\* of 2*maxLoop consecutive DataSets delivered to the output each input
\* contributes between 40 % and 60 % of the DataSets (the windows here are
\* those of the DataSets one callback pushes)
C15_AsStated ==
    [][SaturatedCallback => FairWindows(emittedLog', 2 * maxLoop)]_vars

(***************************************************************************)
(* Passthrough mode                                                        *)
(***************************************************************************)
\* a step of the callback that popped an input or pushed to the output
CallbackMovedPages ==
    /\ pc = "idle"
    /\ \/ \E i \in Inputs : Len(inputs'[i]) < Len(inputs[i])
       \/ Len(output') > Len(output)

\* what a callback does in passthrough mode: it pops at most one page from
\* the head of each input, pushes each page popped as a DataSet of that one
\* page, in the order of the pops, and leaves the slicers alone
PassthroughCallback ==
    /\ \A i \in Inputs :
          /\ Len(poppedLog'[i]) <= 1
          /\ poppedLog'[i] = SubSeq(inputs[i], 1, Len(poppedLog'[i]))
          /\ inputs'[i] = SubSeq(inputs[i], Len(poppedLog'[i]) + 1,
                                 Len(inputs[i]))
          /\ PagesFrom(emittedLog', i, 1) = poppedLog'[i]
    /\ \A n \in 1 .. Len(emittedLog') : Len(emittedLog'[n].set) = 1
    /\ SetsIn(output') =
          SetsIn(output) \o [n \in 1 .. Len(emittedLog') |-> emittedLog'[n].set]
    /\ slicers' = slicers

TakenPagesSettled ==
    \A p \in pbTaken :
        \/ p \in pbAccepted /\ pbReleases[p] = 0
        \/ p \notin pbAccepted /\ pbReleases[p] = 1

\* the places a page of the pool can be in: free, in a queue of the driver,
\* in a block downstream, or held by prepareBlocks between getPage and
\* pushSuperpage
PlacesOf(p) ==
    {place \in {"free", "transfer", "ready", "held", "newPage"} :
        \/ place = "free" /\ p \in mpFree
        \/ place = "transfer" /\ p \in inDriver
        \/ place = "ready" /\ p \in readyPages
        \/ place = "held" /\ p \in heldPages
        \/ place = "newPage" /\ p = newPage}

\* every page of the pool is in exactly one place
PagesAccounted == \A p \in PoolPages : Cardinality(PlacesOf(p)) = 1

\* the driver refuses the page prepareBlocks submits
Refused == pbPc = "push" /\ pbPc' # "push" /\ newPage \notin inDriver'

\* the pool has no page for the refill
PoolEmpty ==
    pbPc = "loop" /\ pbPc' # "loop" /\ getTransferQueueAvailable # 0
    /\ mpFree = {}

\* C17: when prepareBlocks returns, every page it took from the pool is
\* either accepted by the driver or released exactly once, whatever
\* setDataOff does in between; no page of the pool is lost or duplicated; a
\* refused submission releases the page and ends the refill loop; an empty
\* pool ends the loop after one more nMemoryLow, and the call does not
\* return Error
C17_RefillConservesPages ==
    /\ [](pbPc \in {"idle", "end"} => TakenPagesSettled)
    /\ []PagesAccounted
    /\ [](pbResult # "Error")
    /\ [][Refused => /\ newPage \in mpFree'
                     /\ pbReleases'[newPage] = 1
                     /\ pbPc' = "end"]_vars
    /\ [][PoolEmpty => /\ nMemoryLow' = nMemoryLow + 1
                       /\ pbPc' = "end"
                       /\ pbTaken' = pbTaken]_vars

\* C17 witness: a prepareBlocks has returned in which the driver accepted a
\* page and then, the data being switched off in between, refused the next
\* one, and an earlier call found the pool empty
C17_Witness ==
    /\ pbPc = "idle"
    /\ pbAccepted # {}
    /\ \E p \in pbTaken : pbReleases[p] = 1
    /\ nMemoryLow > 0

(***************************************************************************)
(* Properties of the tags of the pages read out                            *)
(***************************************************************************)
\* the last getNextBlock returned a block
Delivered == lastRead.block # <<>>

\* the header of the block the last getNextBlock returned
Header == lastRead.block[1]


\* the step is a getNextBlock that popped a ready superpage of a valid page
ReadsUsablePage ==
    /\ lastRead'.n = lastRead.n + 1
    /\ lastRead'.sp.ready
    /\ lastRead'.sp.pageValid

\* the block, its tags and the timeframe members are the ones the decoration
\* of lines 458-539 alone gives
TagsAsDecorated ==
    \E clockTimeout \in BOOLEAN :
        LET d == Decorate(ReadState, lastRead'.sp, clockTimeout)
        IN /\ lastRead'.block = <<d.header>>
           /\ statsNumberOfPages' = d.r.statsNumberOfPages
           /\ currentTimeframe' = d.r.currentTimeframe
           /\ currentTimeframeHbOrbitBegin' = d.r.currentTimeframeHbOrbitBegin
           /\ firstTimeframeHbOrbitBegin' = d.r.firstTimeframeHbOrbitBegin

\* the check counters only go up, the two error counters by one in total at
\* most, and no RDH at or after one that does not validate is counted ok
CheckStopsAtFailure ==
    /\ statsRdhCheckOk' >= statsRdhCheckOk
    /\ statsRdhCheckErr' >= statsRdhCheckErr
    /\ statsRdhCheckStreamErr' >= statsRdhCheckStreamErr
    /\ (statsRdhCheckErr' + statsRdhCheckStreamErr')
           <= (statsRdhCheckErr + statsRdhCheckStreamErr) + 1
    /\ \A nth \in 1 .. Len(lastRead'.sp.rdhs) :
           ~lastRead'.sp.rdhs[nth].ok =>
               statsRdhCheckOk' - statsRdhCheckOk < nth

\* without the check, its counters are left alone
NoCheckNoCount ==
    ~cfgRdhCheckEnabled =>
        UNCHANGED <<statsRdhCheckOk, statsRdhCheckErr, statsRdhCheckStreamErr,
                    RdhLastPacketCounter>>

\* C18: for a ready superpage of a valid page, getNextBlock returns the page
\* as a block and does not release it, whether rdhCheckEnabled is set or not
\* and whatever the check finds; the tags of the block are those of the
\* decoration, which the check phase does not change; the check changes its
\* counters only, stops at the first failure and so counts one error per page
\* at most
C18_CheckKeepsPage ==
    [][ReadsUsablePage =>
          /\ lastRead'.block # <<>>
          /\ ~lastRead'.released
          /\ TagsAsDecorated
          /\ CheckStopsAtFailure
          /\ NoCheckNoCount]_vars

\* a page whose second RDH does not validate was delivered, after a page
\* counted as a stream error
C18_Witness ==
    /\ cfgRdhCheckEnabled
    /\ Delivered
    /\ lastRead.sp.rdhs[1].ok
    /\ lastRead.sp.rdhs[1].offsetNextPacket # 0
    /\ ~lastRead.sp.rdhs[2].ok
    /\ statsRdhCheckErr > 0
    /\ statsRdhCheckStreamErr > 0

\* C19, as stated: when rdhUseFirstInPageEnabled is not set, whatever
\* rdhCheckEnabled is, every page delivered is tagged with the sentinel
\* equipment id, the sentinel link id and a timeframeId that is not below
\* the one of the page delivered before
C19_AsStated ==
    ~cfgRdhUseFirstInPageEnabled /\ Delivered =>
        /\ Header.equipmentId = undefinedEquipmentId
        /\ Header.linkId = undefinedLinkId
        /\ Header.timeframeId >= lastRead.lastTf

\* getNextBlock delivers a page whose first RDH is valid and whose hbOrbit
\* is at or past the end of the current timeframe, with
\* rdhUseFirstInPageEnabled set
OpeningPage ==
    /\ cfgRdhUseFirstInPageEnabled
    /\ lastRead'.n = lastRead.n + 1
    /\ lastRead'.block # <<>>
    /\ lastRead'.sp.rdhs[1].ok
    /\ lastRead'.hbOrbit >=
           U32(currentTimeframeHbOrbitBegin + timeframePeriodOrbits)

\* the timeframe variables after an opening page, as the claim gives them:
\* the begin and the id of the new timeframe, its alignment on the first
\* timeframe, and the page's orbit within the timeframe
OpenedAsClaimed ==
    LET hbOrbit == lastRead'.hbOrbit
        first == firstTimeframeHbOrbitBegin'
        begin == currentTimeframeHbOrbitBegin'
    IN /\ begin = U32(hbOrbit - (U32(hbOrbit - first) % timeframePeriodOrbits))
       /\ currentTimeframe' = 1 + (U32(begin - first) \div timeframePeriodOrbits)
       /\ U32(begin - first) % timeframePeriodOrbits = 0
       /\ begin <= hbOrbit
       /\ hbOrbit < U32(begin + timeframePeriodOrbits)

\* the timeframeId of the page delivered is not below the one of the page
\* delivered before, in a stream whose hbOrbit never went down
TimeframeIdInOrder ==
    cfgRdhUseFirstInPageEnabled /\ orbitsInOrder /\ Delivered =>
        Header.timeframeId >= lastRead.lastTf

\* C20, as stated: with rdhUseFirstInPageEnabled set, a page with a valid
\* first RDH and hbOrbit >= currentTFOrbitBegin + P opens the timeframe
\* begin = hbOrbit - ((hbOrbit - first) mod P), id = 1 + (begin - first) / P,
\* whatever the previous id was; afterwards (begin - first) mod P = 0 and
\* begin <= hbOrbit < begin + P; and the timeframeId of successive pages is
\* non-decreasing when the hbOrbit of the stream is non-decreasing
C20_AsStated ==
    /\ [][OpeningPage => OpenedAsClaimed]_vars
    /\ []TimeframeIdInOrder

(***************************************************************************)
(* Properties of the result of prepareBlocks                               *)
(***************************************************************************)
\* prepareBlocks returns from a call that ran the refill loop
RefillReturns == pbPc = "end" /\ pbPc' = "idle"

\* C21, as stated: with Q = RocFifoSize, the depth captured at setDataOn
\* (1 for 0), prepareBlocks returns Idle when it pushed fewer than Q / 4
\* pages in the call and Ok otherwise, also when the loop was left because
\* the pool was empty or the driver refused a page
C21_AsStated ==
    [][RefillReturns =>
          pbResult' = IF nPushed < RocFifoSize \div 4 THEN "Idle" ELSE "Ok"]_vars

(***************************************************************************)
(* Properties of the errors of appendBlock                                 *)
(***************************************************************************)
\* the worker takes the step that pops a page and gives it to appendBlock
WorkerPopulates == pc = "populate" /\ poppedLog' # poppedLog

\* the page the worker is about to pop from the input it serves
PoppedPage == Head(inputs[cur])

\* the link id of page b is not the sentinel and is out of range
LinkOutOfRange(b) == b.linkId # undefinedLinkId /\ b.linkId >= maxLinks

\* the page was refused: no slicer and no fifo but the input changed, and
\* the callback returned Error
RefusedAndStopped ==
    /\ pc' = "error"
    /\ result' = "Error"
    /\ slicers' = slicers
    /\ output' = output
    /\ inputs' = [inputs EXCEPT ![cur] = Tail(@)]
    /\ emittedLog' = emittedLog

\* the page was appended: it is the last page of the open set of its source,
\* whose size appendBlock returned
AppendedToOpenSet ==
    LET b == PoppedPage
        r == appendBlock(slicers[cur], b, now)
        open == slicers'[cur].partialSlices[<<b.equipmentId, b.linkId>>]
                    .currentDataSet
    IN /\ pc' # "error"
       /\ r.ret >= 1
       /\ ~IsNull(open)
       /\ r.ret = Len(Deref(open))
       /\ Deref(open)[r.ret] = b

\* C22: appendBlock returns -1 exactly for a page whose link id is not the
\* sentinel and is at or above maxLinks, and then leaves the slicer as it
\* was; otherwise it returns the size, at least 1, of the open set of the
\* source after the append.  The callback returns Error exactly when an
\* appendBlock failed, the refused page being the last thing it processed:
\* the thread takes no step afterwards
C22_AppendBlockErrors ==
    [][/\ WorkerPopulates =>
            LET r == appendBlock(slicers[cur], PoppedPage, now)
            IN /\ (r.ret = -1) <=> LinkOutOfRange(PoppedPage)
               /\ r.ret = -1 => r.slicer = slicers[cur]
               /\ IF LinkOutOfRange(PoppedPage) THEN RefusedAndStopped
                  ELSE AppendedToOpenSet
       /\ (pc # "error" /\ pc' = "error") =>
            WorkerPopulates /\ LinkOutOfRange(PoppedPage)
       /\ pc = "error" => UNCHANGED <<slicers, cbVars, poppedLog, emittedLog>>
      ]_vars

\* a callback returned Error on a page of a wrong link id, after a page was
\* appended to an open set
C22_Witness ==
    /\ pc = "error"
    /\ result = "Error"
    /\ \E i \in Inputs :
          /\ OpenKeys(slicers[i]) # {}
          /\ poppedLog[i] # <<>>
          /\ LinkOutOfRange(poppedLog[i][Len(poppedLog[i])])

(***************************************************************************)
(* Properties of the fifos across stop                                     *)
(***************************************************************************)
\* the thread is out of its callback
OutOfCallback == pc \in {"idle", "error", "stopped"}

\* C23, as stated: stop() clears the input fifos and empties the output
\* fifo only while the thread is out of executeCallback, also when it does
\* not join the thread, and no DataSet is pushed to the output once stop()
\* has emptied it
C23_AsStated ==
    /\ [][stopPc # "drained" /\ stopPc' = "drained" => OutOfCallback]_vars
    /\ [][stopPc = "drained" => emittedLog' = emittedLog]_vars

(***************************************************************************)
(* Properties of the scan of the inputs                                    *)
(***************************************************************************)
\* the worker is in the loop over the inputs
InScan == pc \in {"pass", "populate", "retrieve"}

\* the worker moves on to the next loop index of the same callback
NextLoopIndex == InScan /\ InScan' /\ ix' = ix + 1

\* the worker pushes a DataSet to the output in slicing mode
PushesSlice == pc = "retrieve" /\ emittedLog' # emittedLog

\* C24, as stated: the input served is always a valid index and nextIndex
\* stays within 0 .. nInputs; the input served at loop index ix is
\* (ix + nextIndex) mod nInputs; no input is served twice in one callback
\* (with two inputs: the input served at the next loop index is another
\* one); nextIndex is set to i + 1 by every push of a slice of input i, so
\* that the callback after one that returned on a full output right after
\* such a push starts at input (i + 1) mod nInputs
C24_AsStated ==
    /\ [](cur \in Inputs /\ nextIndex \in 0 .. nInputs)
    /\ [][NextLoopIndex => cur' = (ix' + nextIndex) % nInputs]_vars
    /\ [][NextLoopIndex => cur' # cur]_vars
    /\ [][PushesSlice => nextIndex' = cur + 1]_vars
    /\ [][pc = "idle" /\ InScan' => cur' = nextIndex % nInputs]_vars

(***************************************************************************)
(* Properties of the result of the callback and of doFlush                 *)
(***************************************************************************)
\* the callback did something: it popped a page or pushed a DataSet
CallbackWorked == nBlocksIn # 0 \/ nSlicesOut # 0

\* C25: while the output is full the thread, if it calls the callback,
\* returns Idle from it and pops no input, changes no slicer and does not
\* clear doFlush; doFlush is cleared only at the end of a callback that went
\* through the whole loop, popped no page and pushed no DataSet, and that
\* callback returns Idle; a callback that went through the whole loop and
\* popped a page or pushed a DataSet returns Ok and leaves doFlush as it is;
\* a callback that returns from inside the loop, the output being full,
\* returns Idle and leaves doFlush as it is
C25_ResultAndFlush ==
    /\ [][pc = "idle" /\ isFull(output, outputSize) =>
             /\ pc' = "idle"
             /\ result' \in {result, "Idle"}
             /\ inputs' = inputs \/ nPages' # nPages
             /\ UNCHANGED <<slicers, poppedLog>>
             /\ doFlush => doFlush']_vars
    /\ [][doFlush /\ ~doFlush' =>
             /\ pc = "end" /\ ~CallbackWorked
             /\ pc' = "idle" /\ result' = "Idle"]_vars
    /\ [][pc = "end" /\ pc' # "end" =>
             /\ pc' = "idle"
             /\ result' = IF CallbackWorked THEN "Ok" ELSE "Idle"
             /\ CallbackWorked => doFlush' = doFlush]_vars
    /\ [][InScan /\ pc' = "idle" =>
             /\ isFull(output, outputSize)
             /\ result' = "Idle"
             /\ doFlush' = doFlush]_vars

\* a callback with nothing to do has cleared doFlush after an open set was
\* flushed to the output
C25_Witness ==
    /\ pc = "idle"
    /\ result = "Idle"
    /\ ~doFlush
    /\ \E c \in closedBy : c.how = "flush"

(***************************************************************************)
(* Properties of the emission of open sets                                 *)
(***************************************************************************)
\* the ways the DataSet of page ids `ids` left its PartialSlice
HowClosed(ids) == {c.how : c \in {x \in closedBy : x.set = ids}}

\* every DataSet emitted in slicing mode was closed by a boundary page, by
\* timeout or by flush
EmittedWereClosed ==
    ~disableSlicing =>
        \A n \in 1 .. Len(emittedLog) :
            LET how == HowClosed(IdsOf(emittedLog[n].set))
            IN how # {} /\ how \subseteq {"boundary", "timeout", "flush"}

\* a DataSet closed by a boundary page is not the most recent one of its
\* source: a later page of the source was popped from the same input
BoundaryClosedIsNotLast ==
    \A n \in 1 .. Len(emittedLog) :
        LET e == emittedLog[n]
            last == e.set[Len(e.set)]
        IN HowClosed(IdsOf(e.set)) = {"boundary"} =>
               \E m \in 1 .. Len(poppedLog[e.input]) :
                   /\ poppedLog[e.input][m].id > last.id
                   /\ SourceOf(poppedLog[e.input][m]) = SourceOf(last)

\* the DataSet the worker pushes is the oldest one of the completed fifo,
\* the open sets left alone; or, the completed fifo being empty, doFlush
\* being set and the input being empty, an open set whose slot is nulled
PushedFromFifoOrFlushed ==
    LET sl == slicers[cur]
        pushed == emittedLog'[Len(emittedLog')].set
    IN IF sl.slices # <<>>
       THEN /\ pushed = Deref(Head(sl.slices))
            /\ slicers'[cur].partialSlices = sl.partialSlices
       ELSE /\ doFlush
            /\ isEmpty(inputs[cur])
            /\ \E k \in OpenKeys(sl) :
                  /\ pushed = Deref(sl.partialSlices[k].currentDataSet)
                  /\ slicers'[cur].partialSlices =
                         [sl.partialSlices EXCEPT ![k].currentDataSet = nullptr]

\* C26: an open set reaches the output only after a boundary page of its
\* source, a timeout or a flush closed it; getSlice hands out an open set
\* of input i only when doFlush is set, the fifo of input i is empty and the
\* completed fifo of the slicer is empty, and it nulls the slot; a set that
\* only a boundary page could close (no timeout, no flush) is never the most
\* recent one of its source
C26_OpenSetEmission ==
    /\ []EmittedWereClosed
    /\ []BoundaryClosedIsNotLast
    /\ [][PushesSlice => PushedFromFifoOrFlushed]_vars

\* a set closed by a boundary page and a set closed by flush were emitted
C26_Witness ==
    \E n1, n2 \in 1 .. Len(emittedLog) :
        /\ HowClosed(IdsOf(emittedLog[n1].set)) = {"boundary"}
        /\ HowClosed(IdsOf(emittedLog[n2].set)) = {"flush"}

(***************************************************************************)
(* Properties of the slice timeout                                         *)
(***************************************************************************)
\* C27, as stated: with a slice timeout that is not positive, the default 0
\* or a negative value, no open set is ever closed by timeout
C27_AsStated ==
    cfgSliceTimeout <= 0 => \A c \in closedBy : c.how # "timeout"

(***************************************************************************)
(* Properties of the check of the orbits within a page                     *)
(***************************************************************************)
\* getNextBlock checks a page whose first RDH lies in the current timeframe
\* and leads to a valid second RDH of the same link whose hbOrbit is at or
\* past the end of that timeframe
TimeframeChangesInPage ==
    LET rdhs == lastRead'.sp.rdhs
        end == currentTimeframeHbOrbitBegin' + timeframePeriodOrbits
    IN /\ cfgRdhCheckEnabled
       /\ ReadsUsablePage
       /\ Len(rdhs) = 2
       /\ rdhs[1].ok /\ rdhs[2].ok
       /\ rdhs[1].offsetNextPacket # 0
       /\ rdhs[2].linkId = rdhs[1].linkId
       /\ rdhs[1].hbOrbit < end
       /\ rdhs[2].hbOrbit >= end

\* C28, as stated: with rdhCheckEnabled, a page whose first RDH lies in the
\* current timeframe and whose second RDH has an hbOrbit of its own at or
\* past currentTFOrbitBegin + P counts one stream error
C28_AsStated ==
    [][TimeframeChangesInPage =>
          statsRdhCheckStreamErr' = statsRdhCheckStreamErr + 1]_vars

(***************************************************************************)
(* Properties of the check of the packetCounter                            *)
(***************************************************************************)
\* getNextBlock checks a page of one valid RDH
ChecksOneRdh ==
    /\ cfgRdhCheckEnabled
    /\ ReadsUsablePage
    /\ Len(lastRead'.sp.rdhs) = 1
    /\ lastRead'.sp.rdhs[1].ok

\* C29, as stated: a checked RDH whose packetCounter is not the last one
\* recorded for its link plus one, modulo 2^8 (scaled), raises the warning
\* of possible packets dropped, also when it repeats the last one recorded;
\* the wrap to 0 is contiguous and raises none; in every case the counter
\* recorded for the link becomes the one of the RDH, and the link indexes
\* the table within its bounds
C29_AsStated ==
    [][ChecksOneRdh =>
          LET h == lastRead'.sp.rdhs[1]
              contiguous == h.packetCounter =
                  (RdhLastPacketCounter[h.linkId] + 1) % PacketCounterModulus
          IN /\ h.linkId \in DOMAIN RdhLastPacketCounter
             /\ nDropWarnings' = nDropWarnings + (IF contiguous THEN 0 ELSE 1)
             /\ RdhLastPacketCounter'[h.linkId] = h.packetCounter]_vars

(***************************************************************************)
(* Properties of the first timeframe of a run                              *)
(***************************************************************************)
\* no page read so far in the run was delivered with a valid first RDH
NoValidPageYet ==
    \/ lastRead.n = 0
    \/ /\ lastRead.n = 1
       /\ ~(lastRead.block # <<>> /\ lastRead.sp.rdhs[1].ok)

\* with rdhUseFirstInPageEnabled set, getNextBlock delivers the first page
\* of the run whose first RDH is valid
FirstValidPage ==
    /\ cfgRdhUseFirstInPageEnabled
    /\ NoValidPageYet
    /\ ReadsUsablePage
    /\ lastRead'.sp.rdhs[1].ok

\* with rdhUseFirstInPageEnabled set, getNextBlock delivers a page whose
\* first RDH does not validate
InvalidFirstHeader ==
    /\ cfgRdhUseFirstInPageEnabled
    /\ ReadsUsablePage
    /\ ~lastRead'.sp.rdhs[1].ok

\* the page keeps the default tags and the timeframe is left alone
KeepsDefaults ==
    /\ lastRead'.block[1].equipmentId = undefinedEquipmentId
    /\ lastRead'.block[1].linkId = undefinedLinkId
    /\ lastRead'.block[1].timeframeId = currentTimeframe
    /\ UNCHANGED <<currentTimeframe, currentTimeframeHbOrbitBegin,
                   firstTimeframeHbOrbitBegin>>

\* C30, as stated: in header mode the first page of the run that has a valid
\* first RDH records its hbOrbit as firstTimeframeHbOrbitBegin and is tagged
\* timeframeId 1, also when pages before it failed the validation; a page
\* whose first RDH fails the validation keeps the undefined equipment id,
\* the undefined link id and the unchanged current timeframe
C30_AsStated ==
    /\ [][FirstValidPage =>
             /\ firstTimeframeHbOrbitBegin' = lastRead'.sp.rdhs[1].hbOrbit
             /\ lastRead'.block[1].timeframeId = 1]_vars
    /\ [][InvalidFirstHeader => KeepsDefaults]_vars

(***************************************************************************)
(* Properties of the harvest of superpages                                 *)
(***************************************************************************)
\* the step is a getNextBlock that popped a superpage
PopsSuperpage == lastRead'.n = lastRead.n + 1

\* the three page counters after the step are those before it, plus these
CountedAs(pagesIn, pagesLost, pagesEmpty) ==
    /\ statsNumberOfPages' = statsNumberOfPages + pagesIn
    /\ statsNumberOfPagesLost' = statsNumberOfPagesLost + pagesLost
    /\ statsNumberOfPagesEmpty' = statsNumberOfPagesEmpty + pagesEmpty

\* the superpage is returned as a block or released, never both, and one
\* counter goes up by one: pages in for a block, pages empty for a superpage
\* that is not ready, pages lost for a ready one no block is made of
HandledOnce ==
    /\ (lastRead'.block # <<>>) # lastRead'.released
    /\ lastRead'.block # <<>> => CountedAs(1, 0, 0)
    /\ lastRead'.released /\ lastRead'.sp.ready => CountedAs(0, 1, 0)
    /\ lastRead'.released /\ ~lastRead'.sp.ready => CountedAs(0, 0, 1)

\* the three counters add up to the superpages popped in the run
CountersAddUp ==
    statsNumberOfPages + statsNumberOfPagesLost + statsNumberOfPagesEmpty
        = lastRead.n

\* C31: every superpage getNextBlock pops is either returned as a block or
\* released, never both; exactly one of statsNumberOfPages,
\* statsNumberOfPagesLost (ready, no block) and statsNumberOfPagesEmpty (not
\* ready) goes up by one for it, so the three add up to the number of
\* superpages popped
C31_HandledOnce ==
    /\ [][PopsSuperpage => HandledOnce]_vars
    /\ []CountersAddUp

\* after a page returned as a block, a ready superpage was released and
\* counted as lost
C31_Witness ==
    /\ statsNumberOfPages > 0
    /\ statsNumberOfPagesLost > 0
    /\ lastRead.released
    /\ lastRead.sp.ready

(***************************************************************************)
(* Properties of the tags of the producer, as the slicer takes them        *)
(***************************************************************************)
\* C32, as stated: every page getNextBlock delivers, tagged by default or
\* from a first RDH that passed validateRdh, has a link id appendBlock
\* accepts (the sentinel or one below maxLinks), so executeCallback never
\* returns Error for the pages of the equipment
C32_AsStated ==
    /\ Delivered => ~LinkIdIsWrong(Header.linkId)
    /\ result # "Error"

(***************************************************************************)
(* Properties of a second run of the aggregator                            *)
(***************************************************************************)
\* the pages of the DataSets emitted by the step
NewlyEmitted ==
    UNION {{emittedLog'[n].set[m].id : m \in 1 .. Len(emittedLog'[n].set)} :
           n \in Len(emittedLog) + 1 .. Len(emittedLog')}

\* C33, as stated: after stop() and start(), no DataSet pushed to the output
\* holds a page of the run before (the pages produced before that start(),
\* all popped or dropped by then), and doFlush is 0 after start() whatever
\* was requested before it
C33_AsStated ==
    /\ [][\A id \in NewlyEmitted : id > pagesBefore]_vars
    /\ [][pc = "stopped" /\ pc' = "idle" => ~doFlush']_vars

====
